---- MODULE Spec2Model ----
(***************************************************************************)
(* A model of the discretize mesh classes: BaseMesh (topology counting and *)
(* field validation), BaseRectangularMesh (the reshape command r) and      *)
(* BaseTensorMesh (per-axis vectors and tensor grids).                     *)
(*                                                                         *)
(* Python values are modelled as follows.  None is the empty tuple and a   *)
(* value that may be None is wrapped in a one-element tuple.  An ndarray   *)
(* of one dimension is a sequence; an ndarray of more dimensions is a      *)
(* record [shape, data] whose data are kept in C order (last index         *)
(* fastest), the layout numpy gives a freshly built array, so that a       *)
(* Fortran-order reshape or flatten is a real permutation.  Coordinates    *)
(* are exact multiples of one half, stored as integers counting halves.    *)
(***************************************************************************)
EXTENDS Integers, Sequences, FiniteSets, TLC

VARIABLES cls, shape, x0, h, nodes, cache, calls, op, arg, out

vars == <<cls, shape, x0, h, nodes, cache, calls, op, arg, out>>

(* ---------------------------- bounds ----------------------------------- *)
\* largest number of cells along one axis of a BaseMesh drawn in Init
MaxCells == 3
\* largest number of cells along one axis of a tensor mesh drawn in Init
MaxN == 2
\* largest number of cells of a one-dimensional tensor mesh drawn in Init
MaxN1 == 4
\* longest shape or x0 value offered to a constructor or an assignment
MaxDimIn == 4

(* --------------------------- Python values ----------------------------- *)
None == <<>>
Some(v) == <<v>>
Get(o) == o[1]

\* the outcome of a call: a returned value or a raised exception
Ok(v) == [ok |-> TRUE, val |-> v, err |-> ""]
Raise(e) == [ok |-> FALSE, val |-> None, err |-> e]

RECURSIVE Prod(_)
Prod(s) == IF s = <<>> THEN 1 ELSE Head(s) * Prod(Tail(s))

RECURSIVE Sum(_)
Sum(s) == IF s = <<>> THEN 0 ELSE Head(s) + Sum(Tail(s))

\* s[:n]
Take(s, n) == SubSeq(s, 1, IF n < Len(s) THEN n ELSE Len(s))

\* elementwise a + b of two arrays of the same length
AddSeq(a, b) == [i \in 1..Len(a) |-> a[i] + b[i]]

\* n copies of v
Rep(n, v) == [i \in 1..n |-> v]

\* [x for x in s if x is not None], the elements unwrapped
RECURSIVE NotNone(_)
NotNone(s) ==
  IF s = <<>> THEN <<>>
  ELSE IF Head(s) = None THEN NotNone(Tail(s))
       ELSE <<Get(Head(s))>> \o NotNone(Tail(s))

(* ------------------------ BaseMesh: counting --------------------------- *)
dim(s) == Len(s)

nC(s) == Prod(s)

\* mutant: one more than the cell count instead of one more per axis
nN_plusOne(s) == Prod(s) + 1

nN(s) == Prod(AddSeq(s, Rep(Len(s), 1)))

\* mutant: the x-edge count with the offsets of the x-face count
nEx_faceOffsets(s) == Prod(AddSeq(s, Take(<<1, 0, 0>>, Len(s))))

nEx(s) == Prod(AddSeq(s, Take(<<0, 1, 1>>, dim(s))))

nEy(s) == IF dim(s) < 2 THEN None ELSE Some(Prod(AddSeq(s, Take(<<1, 0, 1>>, dim(s)))))

nEz(s) == IF dim(s) < 3 THEN None ELSE Some(Prod(AddSeq(s, Take(<<1, 1, 0>>, dim(s)))))

vnE(s) == NotNone(<<Some(nEx(s)), nEy(s), nEz(s)>>)

nE(s) == Sum(vnE(s))

\* mutant: the x-face count with the offsets of the x-edge count
nFx_edgeOffsets(s) == Prod(AddSeq(s, Take(<<0, 1, 1>>, Len(s))))

nFx(s) == Prod(AddSeq(s, Take(<<1, 0, 0>>, dim(s))))

nFy(s) == IF dim(s) < 2 THEN None ELSE Some(Prod(AddSeq(s, Take(<<0, 1, 0>>, dim(s)))))

nFz(s) == IF dim(s) < 3 THEN None ELSE Some(Prod(AddSeq(s, Take(<<0, 0, 1>>, dim(s)))))

\* mutant: the z-faces left out of the per-axis face counts
vnF_noZ(s) == NotNone(<<Some(nFx(s)), nFy(s)>>)

vnF(s) == NotNone(<<Some(nFx(s)), nFy(s), nFz(s)>>)

nF(s) == Sum(vnF(s))

\* np.c_ of constant columns: n rows, each equal to row
Block(n, row) == Rep(n, row)

normals(s) ==
  IF dim(s) = 2 THEN
    Some(Block(nFx(s), <<1, 0>>) \o Block(Get(nFy(s)), <<0, 1>>))
  ELSE IF dim(s) = 3 THEN
    Some(Block(nFx(s), <<1, 0, 0>>) \o Block(Get(nFy(s)), <<0, 1, 0>>)
         \o Block(Get(nFz(s)), <<0, 0, 1>>))
  ELSE None

tangents(s) ==
  IF dim(s) = 2 THEN
    Some(Block(nEx(s), <<1, 0>>) \o Block(Get(nEy(s)), <<0, 1>>))
  ELSE IF dim(s) = 3 THEN
    Some(Block(nEx(s), <<1, 0, 0>>) \o Block(Get(nEy(s)), <<0, 1, 0>>)
         \o Block(Get(nEz(s)), <<0, 0, 1>>))
  ELSE None

\* the properties of BaseMesh that are read from the shape field
BaseProps ==
  {"dim", "nC", "len", "nN", "nEx", "nEy", "nEz", "vnE", "nE",
   "nFx", "nFy", "nFz", "vnF", "nF", "normals", "tangents"}

\* the value of property p on a mesh whose shape field holds the array s
PropValue(p, s) ==
  CASE p = "dim" -> dim(s)
    [] p = "nC" -> nC(s)
    [] p = "len" -> nC(s)
    [] p = "nN" -> nN(s)
    [] p = "nEx" -> nEx(s)
    [] p = "nEy" -> nEy(s)
    [] p = "nEz" -> nEz(s)
    [] p = "vnE" -> vnE(s)
    [] p = "nE" -> nE(s)
    [] p = "nFx" -> nFx(s)
    [] p = "nFy" -> nFy(s)
    [] p = "nFz" -> nFz(s)
    [] p = "vnF" -> vnF(s)
    [] p = "nF" -> nF(s)
    [] p = "normals" -> normals(s)
    [] p = "tangents" -> tangents(s)

\* reading a property: a shape field holding None has neither a length nor
\* a prod method, so the read raises
ReadProp(p, sh) ==
  IF sh = None
  THEN Raise(IF p \in {"nC", "len"} THEN "AttributeError" ELSE "TypeError")
  ELSE Ok(PropValue(p, Get(sh)))

(* ------------------------ BaseMesh: validators ------------------------- *)
\* A validator's outcome is the value it returns (which the field then holds)
\* or the exception it raises.  values maps the names of the fields that are
\* already set to what they hold.

HasKey(values, k) == k \in DOMAIN values

\* len(x) of a field value: None has no length
LenOf(o) == IF o = None THEN Raise("TypeError") ELSE Ok(Len(Get(o)))

_check_shape(v, values) ==
  IF Len(v) > 3 THEN Raise("DimensionError")
  ELSE IF HasKey(values, "x0") /\ ~LenOf(values["x0"]).ok THEN Raise("TypeError")
  ELSE IF HasKey(values, "x0") /\ LenOf(values["x0"]).val # Len(v)
       THEN Raise("NameError")
  ELSE IF HasKey(values, "nodes")
          /\ v # [i \in 1..Len(values["nodes"][1].shape) |->
                   values["nodes"][1].shape[i] - 1]
       THEN Raise("TypeError")
  ELSE Ok(None)

_check_x0(v, values) ==
  IF HasKey(values, "shape") /\ ~LenOf(values["shape"]).ok THEN Raise("TypeError")
  ELSE IF HasKey(values, "shape") /\ LenOf(values["shape"]).val # Len(v)
       THEN Raise("DimensionMismatch")
  ELSE Ok(None)

Dot(a, b) == a[1] * b[1] + a[2] * b[2] + a[3] * b[3]

Abs(n) == IF n < 0 THEN -n ELSE n

\* The axes are integer direction vectors with entries in -1..1; the field
\* validator scales each to unit length, so the dot product of two of them
\* exceeds 1E-6 in magnitude exactly when the integer dot product is not 0.
_check_ortho(values) ==
  IF /\ HasKey(values, "axis_u") /\ HasKey(values, "axis_v") /\ HasKey(values, "axis_w")
     /\ \/ Abs(Dot(values["axis_u"], values["axis_w"])) > 0
        \/ Abs(Dot(values["axis_v"], values["axis_w"])) > 0
        \/ Abs(Dot(values["axis_u"], values["axis_v"])) > 0
  THEN Raise("OrthogonalityError")
  ELSE Ok(None)

\* the defaults of the fields axis_u, axis_v, axis_w
DefaultAxes == <<(<<1, 0, 0>>), (<<0, 1, 0>>), (<<0, 0, 1>>)>>

\* the axes the model is built from: BaseMesh.__init__ passes shape and x0
\* on and nothing else, so the fields take their defaults
AxesUsed(kwargs) == DefaultAxes

\* a construction that failed validation: the kinds of the errors collected
Invalid(kinds) == [ok |-> FALSE, val |-> kinds, err |-> "ValidationError"]

ErrOf(r) == IF r.ok THEN <<>> ELSE <<r.err>>

\* BaseMesh(shape, x0, **kwargs): the fields are validated in the order of
\* their declaration, each against the fields accepted before it, then the
\* root validator runs; the errors are collected and any error fails the
\* construction.  The model is otherwise built from what the validators
\* returned, and the None the root validator returns is no field mapping.
BaseMesh__init__(shape_in, x0_in, kwargs) ==
  LET r1 == _check_shape(shape_in, <<>>)
      values1 == [k \in (IF r1.ok THEN {"shape"} ELSE {}) |-> r1.val]
      r2 == IF x0_in = None THEN Raise("ArrayError") ELSE _check_x0(Get(x0_in), values1)
      axes == AxesUsed(kwargs)
      r3 == _check_ortho([k \in {"axis_u", "axis_v", "axis_w"} |->
                            IF k = "axis_u" THEN axes[1]
                            ELSE IF k = "axis_v" THEN axes[2] ELSE axes[3]])
      errors == ErrOf(r1) \o ErrOf(r2) \o ErrOf(r3)
  IN IF errors # <<>> THEN Invalid(errors)
     ELSE IF r3.val = None THEN Raise("TypeError")
     ELSE Ok([shape |-> r1.val, x0 |-> r2.val])

(* ---------------------- BaseTensorMesh: validators --------------------- *)
\* np.linspace(0, 1, n) for n in 1..2, in halves
Linspace01(n) == IF n = 1 THEN <<0>> ELSE <<0, 2>>

\* the entries of h are arrays of widths: int(v_i) succeeds on an array of a
\* single element, which is then replaced by np.linspace(0, 1, int(v_i));
\* on a longer array it raises TypeError and the array is kept
_prevalid_h(v) ==
  IF Len(v) > 3 THEN Raise("DimensionError")
  ELSE Ok([i \in 1..Len(v) |->
             IF Len(v[i]) = 1 THEN Linspace01(v[i][1] \div 2) ELSE v[i]])

\* an entry of an x0 argument: a number or a string
Num(n) == <<"num", n>>
Str(c) == <<"str", c>>

Lower(c) == IF c = "C" THEN "c" ELSE IF c = "N" THEN "n" ELSE c

\* one entry of x0 against the widths hi of its axis: -h[i].sum negates a
\* method, not a number
X0Entry(vi, hi) ==
  IF vi[1] = "str" THEN
    IF Lower(vi[2]) = "0" THEN Ok(0)
    ELSE IF Lower(vi[2]) = "c" THEN Ok(-(Sum(hi) \div 2))
    ELSE IF Lower(vi[2]) = "n" THEN Raise("TypeError")
    ELSE Raise("NotRecognized")
  ELSE Ok(vi[2])

\* without h among the values the widths are taken from cls._unitDimension,
\* an attribute the class does not have
_prevalid_x0(v, values) ==
  IF ~HasKey(values, "h") THEN Raise("AttributeError")
  ELSE IF Len(v) # Len(values["h"]) THEN Raise("DimensionMismatch")
  ELSE LET e(i) == X0Entry(v[i], values["h"][i])
           bad == {i \in 1..Len(v) : ~e(i).ok}
       IN IF bad # {}
          THEN e(CHOOSE i \in bad : \A j \in bad : i <= j)
          ELSE Ok([i \in 1..Len(v) |-> e(i).val])

\* BaseTensorMesh(h, x0, **kwargs).  The two _easy_validate calls run on an
\* object that has no field yet, so their values hold no h.
BaseTensorMesh__init__(h_in, x0_in, kwargs) ==
  LET rh == _prevalid_h(h_in)
      shape_in == [i \in 1..Len(rh.val) |-> Len(rh.val[i])]
      rx == _prevalid_x0(x0_in, <<>>)
      rc == _check_x0(rx.val, <<>>)
  IN IF ~rh.ok THEN Invalid(<<rh.err>>)
     ELSE IF ~rx.ok THEN rx
     ELSE IF ~rc.ok THEN Invalid(<<rc.err>>)
     ELSE BaseMesh__init__(shape_in, rc.val, kwargs)

(* ------------------- BaseRectangularMesh: per-axis counts -------------- *)
nCx(s) == s[1]
nCy(s) == IF dim(s) < 2 THEN None ELSE Some(s[2])
nCz(s) == IF dim(s) < 3 THEN None ELSE Some(s[3])

vnC(s) == s

nNx(s) == nCx(s) + 1
nNy(s) == IF dim(s) < 2 THEN None ELSE Some(Get(nCy(s)) + 1)
nNz(s) == IF dim(s) < 3 THEN None ELSE Some(Get(nCz(s)) + 1)

vnN(s) == AddSeq(s, Rep(Len(s), 1))

vnEx(s) == NotNone(<<Some(nCx(s)), nNy(s), nNz(s)>>)
vnEy(s) == IF dim(s) < 2 THEN None ELSE Some(NotNone(<<Some(nNx(s)), nCy(s), nNz(s)>>))
vnEz(s) == IF dim(s) < 3 THEN None ELSE Some(NotNone(<<Some(nNx(s)), nNy(s), nCz(s)>>))

vnFx(s) == NotNone(<<Some(nNx(s)), nCy(s), nCz(s)>>)
vnFy(s) == IF dim(s) < 2 THEN None ELSE Some(NotNone(<<Some(nCx(s)), nNy(s), nCz(s)>>))
vnFz(s) == IF dim(s) < 3 THEN None ELSE Some(NotNone(<<Some(nCx(s)), nCy(s), nNz(s)>>))

(* ------------------------------ ndarrays ------------------------------- *)
\* An array is [shape, data] with data in C order.  Indices count from 0.
Arr(sh, data) == [shape |-> sh, data |-> data]
Arr1(seq) == Arr(<<Len(seq)>>, seq)
Size(A) == Prod(A.shape)
NDim(A) == Len(A.shape)

\* position in C order (last index fastest) of the multi-index idx
RECURSIVE PosC(_, _)
PosC(nn, idx) ==
  IF nn = <<>> THEN 0 ELSE idx[1] * Prod(Tail(nn)) + PosC(Tail(nn), Tail(idx))

\* position in Fortran order (first index fastest) of the multi-index idx
RECURSIVE PosF(_, _)
PosF(nn, idx) ==
  IF nn = <<>> THEN 0 ELSE idx[1] + nn[1] * PosF(Tail(nn), Tail(idx))

\* the multi-index at position k of the Fortran order
RECURSIVE MultiF(_, _)
MultiF(nn, k) ==
  IF nn = <<>> THEN <<>> ELSE <<k % nn[1]>> \o MultiF(Tail(nn), k \div nn[1])

\* the multi-index at position p of the C order
RECURSIVE MultiC(_, _)
MultiC(nn, p) ==
  IF nn = <<>> THEN <<>>
  ELSE <<p \div Prod(Tail(nn))>> \o MultiC(Tail(nn), p % Prod(Tail(nn)))

\* A[idx]
At(A, idx) == A.data[PosC(A.shape, idx) + 1]

\* the elements of A in Fortran order
FlatF(A) == [k \in 1..Size(A) |-> At(A, MultiF(A.shape, k - 1))]

\* xx.reshape(nn, order='F')
ReshapeF(xx, nn) ==
  LET flat == FlatF(xx)
  IN Arr(nn, [p \in 1..Prod(nn) |-> flat[PosF(nn, MultiC(nn, p - 1)) + 1]])

\* x[:, ii] of a two-dimensional array
Column(A, ii) == Arr1([k \in 1..A.shape[1] |-> At(A, <<k - 1, ii>>)])

\* mutant: the slice is taken from the head of the array
Slice_fromHead(A, start, end) == Arr1(SubSeq(A.data, 1, end - start))

\* xx[start:end] of a one-dimensional array
Slice(A, start, end) == Arr1(SubSeq(A.data, start + 1, end))

(* ------------------------------- utils --------------------------------- *)
\* utils.mkvc(x): x flattened in Fortran order
mkvc(xx) == Arr1(FlatF(xx))

\* utils.ndgrid(tensors): the outer product of the vectors, one row per
\* point and one column per axis, the first axis varying fastest
ndgrid(tensors) ==
  LET d == Len(tensors)
      lens == [j \in 1..d |-> Len(tensors[j])]
      n == Prod(lens)
  IN Arr(<<n, d>>,
         [p \in 1..(n * d) |->
            LET k == (p - 1) \div d
                j == ((p - 1) % d) + 1
            IN tensors[j][MultiF(lens, k)[j] + 1]])

(* --------------------- BaseRectangularMesh: r -------------------------- *)
\* A location name is the string of its characters.
Chars(t) ==
  CASE t = "CC" -> <<"C", "C">>
    [] t = "N" -> <<"N">>
    [] t = "F" -> <<"F">>
    [] t = "Fx" -> <<"F", "x">>
    [] t = "Fy" -> <<"F", "y">>
    [] t = "Fz" -> <<"F", "z">>
    [] t = "E" -> <<"E">>
    [] t = "Ex" -> <<"E", "x">>
    [] t = "Ey" -> <<"E", "y">>
    [] t = "Ez" -> <<"E", "z">>
    [] OTHER -> <<"?">>

\* mutant: one more name is taken for an allowed location
allowed_xType_andQ == {"CC", "N", "F", "Fx", "Fy", "Fz", "E", "Ex", "Ey", "Ez", "Q"}

allowed_xType == {"CC", "N", "F", "Fx", "Fy", "Fz", "E", "Ex", "Ey", "Ez"}

\* outType[:len(xType)] == xType
StartsWith(outType, xType) == Take(Chars(outType), Len(Chars(xType))) = Chars(xType)

\* small in big, as strings
Contains(big, small) ==
  \E i \in 0..(Len(big) - Len(small)) : SubSeq(big, i + 1, i + Len(small)) = small

DimNames == <<"x", "y", "z">>

\* a tuple of results, or the first exception raised while building it
Tup(items) == [items |-> items]

Collect(results) ==
  LET bad == {i \in 1..Len(results) : ~results[i].ok}
  IN IF bad # {} THEN results[CHOOSE i \in bad : \A j \in bad : i <= j]
     ELSE Ok(Tup([i \in 1..Len(results) |-> results[i].val]))

\* mutant: the matrix is filled in C order
outKernal_COrder(xx, nn, format) ==
  IF format = "M" THEN Ok(Arr(nn, FlatF(xx)))
  ELSE Ok(mkvc(xx))

outKernal(xx, nn, format) ==
  IF format = "M" THEN Ok(ReshapeF(xx, nn))
  ELSE Ok(mkvc(xx))

switchKernal(s, xx, xType, outType, format) ==
  IF xType \in {"CC", "N"} THEN
    LET nn == IF xType = "CC" THEN s ELSE AddSeq(s, Rep(Len(s), 1))
    IN IF Size(xx) # Prod(nn) THEN Raise("ElementsMustNotChange")
       ELSE outKernal(xx, nn, format)
  ELSE IF xType \in {"F", "E"} THEN
    LET x1 == mkvc(xx)
        nn == <<0>> \o (IF xType = "F" THEN vnF(s) ELSE vnE(s))
        nx == IF xType = "F" THEN <<Some(vnFx(s)), vnFy(s), vnFz(s)>>
              ELSE <<Some(vnEx(s)), vnEy(s), vnEz(s)>>
        hits == {dd \in 0..2 : Contains(Chars(outType), <<DimNames[dd + 1]>>)}
    IN IF hits = {} THEN Ok(None)
       ELSE LET dd == CHOOSE a \in hits : \A b \in hits : a <= b
            IN IF dim(s) <= dd THEN Raise("DimensionsNotGreatEnough")
               ELSE IF Size(x1) # Sum(nn) THEN Raise("NotTheRightSize")
               ELSE outKernal(Slice(x1, Sum(Take(nn, dd + 1)), Sum(Take(nn, dd + 2))),
                              Get(nx[dd + 1]), format)
  ELSE IF /\ Len(Chars(xType)) > 1
          /\ Chars(xType)[1] \in {"F", "E"}
          /\ Chars(xType)[2] \in {"x", "y", "z"} THEN
    LET isF == Contains(Chars(xType), <<"F">>)
        nn == IF Contains(Chars(xType), <<"x">>)
                THEN Some(IF isF THEN vnFx(s) ELSE vnEx(s))
              ELSE IF Contains(Chars(xType), <<"y">>)
                THEN (IF isF THEN vnFy(s) ELSE vnEy(s))
              ELSE (IF isF THEN vnFz(s) ELSE vnEz(s))
    IN IF nn = None THEN Raise("NotTheRightSize")
       ELSE IF Size(xx) # Prod(Get(nn)) THEN Raise("NotTheRightSize")
       ELSE outKernal(xx, Get(nn), format)
  ELSE Ok(None)

\* x is an array, or a list of arrays [list |-> <<...>>]
IsList(x) == "list" \in DOMAIN x

isVectorQuantity(s, x) == NDim(x) = 2 /\ x.shape[2] = dim(s)

r(s, x, xType, outType, format) ==
  IF xType \notin allowed_xType THEN Raise("xTypeNotAllowed")
  ELSE IF outType \notin allowed_xType THEN Raise("outTypeNotAllowed")
  ELSE IF format \notin {"M", "V"} THEN Raise("formatNotAllowed")
  ELSE IF ~StartsWith(outType, xType) THEN Raise("CannotChangeTypes")
  ELSE IF ~Contains(Chars(outType), Chars(xType)) THEN Raise("CannotChangeComponents")
  ELSE IF IsList(x) THEN
    (IF Len(x.list) > 0 THEN Raise("MustBeNumpyArray") ELSE Raise("AttributeError"))
  ELSE IF outType \in {"F", "E"} THEN
    (IF isVectorQuantity(s, x) THEN Raise("VectorVectorQuantity")
     ELSE Collect([ii \in 1..dim(s) |->
                     switchKernal(s, x, xType, outType \o DimNames[ii], format)]))
  ELSE IF isVectorQuantity(s, x) THEN
    Collect([ii \in 1..x.shape[2] |->
               switchKernal(s, Column(x, ii - 1), xType, outType, format)])
  ELSE switchKernal(s, x, xType, outType, format)

(* --------------------- BaseTensorMesh: vectors, grids ------------------ *)
\* A tensor mesh m is the record of its fields shape, x0 and h.
hx(m) == m.h[1]
hy(m) == IF dim(m.shape) < 2 THEN None ELSE Some(m.h[2])
hz(m) == IF dim(m.shape) < 3 THEN None ELSE Some(m.h[3])

\* np.r_[0., w.cumsum()] + o
NodeVector(w, o) == [k \in 1..(Len(w) + 1) |-> Sum(Take(w, k - 1)) + o]

\* mutant: the centres offset by the whole width of their cell
CentreVector_fullWidth(w, o) == [k \in 1..Len(w) |-> Sum(Take(w, k - 1)) + w[k] + o]

\* np.r_[0, w[:-1].cumsum()] + w*0.5 + o; the widths are even numbers of
\* halves, so the product with 0.5 is exact
CentreVector(w, o) == [k \in 1..Len(w) |-> Sum(Take(w, k - 1)) + (w[k] \div 2) + o]

vectorNx(m) == NodeVector(hx(m), m.x0[1])
vectorNy(m) == IF dim(m.shape) < 2 THEN None ELSE Some(NodeVector(Get(hy(m)), m.x0[2]))
vectorNz(m) == IF dim(m.shape) < 3 THEN None ELSE Some(NodeVector(Get(hz(m)), m.x0[3]))

vectorCCx(m) == CentreVector(hx(m), m.x0[1])
vectorCCy(m) == IF dim(m.shape) < 2 THEN None ELSE Some(CentreVector(Get(hy(m)), m.x0[2]))
vectorCCz(m) == IF dim(m.shape) < 3 THEN None ELSE Some(CentreVector(Get(hz(m)), m.x0[3]))

getTensor(m, key) ==
  NotNone(
    IF key = "Fx" THEN <<Some(vectorNx(m)), vectorCCy(m), vectorCCz(m)>>
    ELSE IF key = "Fy" THEN <<Some(vectorCCx(m)), vectorNy(m), vectorCCz(m)>>
    ELSE IF key = "Fz" THEN <<Some(vectorCCx(m)), vectorCCy(m), vectorNz(m)>>
    ELSE IF key = "Ex" THEN <<Some(vectorCCx(m)), vectorNy(m), vectorNz(m)>>
    ELSE IF key = "Ey" THEN <<Some(vectorNx(m)), vectorCCy(m), vectorNz(m)>>
    ELSE IF key = "Ez" THEN <<Some(vectorNx(m)), vectorNy(m), vectorCCz(m)>>
    ELSE IF key = "CC" THEN <<Some(vectorCCx(m)), vectorCCy(m), vectorCCz(m)>>
    ELSE <<Some(vectorNx(m)), vectorNy(m), vectorNz(m)>>)

_getTensorGrid(m, key) == ndgrid(getTensor(m, key))

(* ------------------- BaseMesh: reads and assignments ------------------- *)
\* entries offered in a shape or an x0 value (the validators read lengths only)
ShapeEntries == {1, 2}
X0Entries == {0, -2}

SeqsUpTo(S, n) == UNION {[1..k -> S] : k \in 0..n}

\* the shapes of the meshes drawn in Init: 1 to 3 axes of 1..MaxCells cells
Shapes == UNION {[1..d -> 1..MaxCells] : d \in 1..3}

\* reading property p of the mesh
ReadBase(p) ==
  /\ cls = "BaseMesh"
  /\ op' = p
  /\ arg' = None
  /\ out' = ReadProp(p, shape)
  /\ UNCHANGED <<cls, shape, x0, h, nodes, cache, calls>>

\* mesh.shape = v: the value is coerced to an integer array, validated
\* against the other fields, and the field then holds what the validator
\* returned; a raised exception leaves every field as it was
AssignShape(v) ==
  LET res == _check_shape(v, [k \in {"x0"} |-> x0])
  IN /\ cls = "BaseMesh"
     /\ op' = "set_shape"
     /\ arg' = Some(v)
     /\ out' = res
     /\ shape' = IF res.ok THEN res.val ELSE shape
     /\ UNCHANGED <<cls, x0, h, nodes, cache, calls>>

\* mesh.x0 = v
AssignX0(v) ==
  LET res == _check_x0(v, [k \in {"shape"} |-> shape])
  IN /\ cls = "BaseMesh"
     /\ op' = "set_x0"
     /\ arg' = Some(v)
     /\ out' = res
     /\ x0' = IF res.ok THEN res.val ELSE x0
     /\ UNCHANGED <<cls, shape, h, nodes, cache, calls>>

\* a BaseMesh whose shape and x0 fields hold arrays of one length
Init ==
  /\ cls = "BaseMesh"
  /\ \E s \in Shapes : shape = Some(s) /\ x0 = Some(Rep(Len(s), 0))
  /\ h = None
  /\ cache = <<>>
  /\ nodes = None
  /\ calls = <<>>
  /\ op = "init"
  /\ arg = None
  /\ out = Ok(None)

Next ==
  \/ \E p \in BaseProps : ReadBase(p)
  \/ \E v \in SeqsUpTo(ShapeEntries, MaxDimIn) : AssignShape(v)
  \/ \E v \in SeqsUpTo(X0Entries, MaxDimIn) : AssignX0(v)

Spec == Init /\ [][Next]_vars

(* ------------------------- claims on BaseMesh -------------------------- *)
FaceNames == <<"nFx", "nFy", "nFz">>
EdgeNames == <<"nEx", "nEy", "nEz">>

\* the x count is a plain integer, the y and z counts are an integer or None
AsOpt(p, v) == IF p \in {"nFx", "nEx"} THEN Some(v) ELSE v

\* the product over the axes i of s of s[i] + (atAxis on axis a, elsewhere off it)
AxisProduct(s, a, atAxis, elsewhere) ==
  LET f(i) == s[i] + (IF i = a + 1 THEN atAxis ELSE elsewhere)
  IN f(1) * (IF Len(s) >= 2 THEN f(2) ELSE 1) * (IF Len(s) >= 3 THEN f(3) ELSE 1)

\* what a read of the count named names[a+1] must have returned
AxisCountIs(names, atAxis, elsewhere) ==
  \A a \in 0..2 :
    (op = names[a + 1] /\ out.ok) =>
      AsOpt(op, out.val) =
        IF a < Len(Get(shape))
        THEN Some(AxisProduct(Get(shape), a, atAxis, elsewhere))
        ELSE None

\* C3 as stated: the face count along axis a < dim is the product over the
\* axes i of shape[i] + (0 if i = a else 1), and None for a >= dim.
C3_AsStated == AxisCountIs(FaceNames, 0, 1)

\* C3 amended: the face count along axis a < dim is the product over the
\* axes i of shape[i] + (1 if i = a else 0), and None for a >= dim.
C3_FaceCountAxis == AxisCountIs(FaceNames, 1, 0)

C3_Witness ==
  /\ op = "nFy" /\ out.ok
  /\ shape = Some(<<2, 3>>)
  /\ out.val = Some(8)

\* C4 as stated: the edge count along axis a < dim is the product over the
\* axes i of shape[i] + (1 if i = a else 0), and None for a >= dim.
C4_AsStated == AxisCountIs(EdgeNames, 1, 0)

\* C4 amended: the edge count along axis a < dim is the product over the
\* axes i of shape[i] + (0 if i = a else 1), and None for a >= dim.
C4_EdgeCountAxis == AxisCountIs(EdgeNames, 0, 1)

C4_Witness ==
  /\ op = "nEy" /\ out.ok
  /\ shape = Some(<<2, 3>>)
  /\ out.val = Some(9)

\* the sum over the axes a < dim of the per-axis products
AxisTotal(s, atAxis, elsewhere) ==
  AxisProduct(s, 0, atAxis, elsewhere)
  + (IF Len(s) >= 2 THEN AxisProduct(s, 1, atAxis, elsewhere) ELSE 0)
  + (IF Len(s) >= 3 THEN AxisProduct(s, 2, atAxis, elsewhere) ELSE 0)

\* C5: vnF (vnE) has dim entries, the face (edge) counts of the axes a < dim
\* in order, nF (nE) is their sum; on a 2-D mesh nFx = (nCx+1)*nCy and
\* nFy = nCx*(nCy+1); shape [2,2] has nC = 4, nFx = 6, nFy = 6, nF = 12.
C5_TotalsAreAxisSums ==
  LET s == Get(shape)
      d == Len(s)
  IN /\ (op \in {"vnF", "vnE"} /\ out.ok) =>
          /\ Len(out.val) = d
          /\ \A a \in 0..(d - 1) :
               out.val[a + 1] = IF op = "vnF" THEN AxisProduct(s, a, 1, 0)
                                ELSE AxisProduct(s, a, 0, 1)
     /\ (op = "nF" /\ out.ok) => out.val = AxisTotal(s, 1, 0)
     /\ (op = "nE" /\ out.ok) => out.val = AxisTotal(s, 0, 1)
     /\ (op = "nFx" /\ out.ok /\ d = 2) => out.val = (s[1] + 1) * s[2]
     /\ (op = "nFy" /\ out.ok /\ d = 2) => out.val = Some(s[1] * (s[2] + 1))
     /\ (out.ok /\ shape = Some(<<2, 2>>)) =>
          /\ op = "nC" => out.val = 4
          /\ op = "nFx" => out.val = 6
          /\ op = "nFy" => out.val = Some(6)
          /\ op = "nF" => out.val = 12

C5_Witness ==
  /\ op = "nF" /\ out.ok
  /\ shape = Some(<<1, 2, 3>>)
  /\ out.val = 2 * 2 * 3 + 1 * 3 * 3 + 1 * 2 * 4

\* C6: dim is the number of entries of shape (1, 2 or 3), nC and len(mesh)
\* are the product of shape, nN is the product of shape[i] + 1.
C6_DimCellsNodes ==
  LET s == Get(shape)
      d == Len(s)
      cells == s[1] * (IF d >= 2 THEN s[2] ELSE 1) * (IF d >= 3 THEN s[3] ELSE 1)
      nodeCount == (s[1] + 1) * (IF d >= 2 THEN s[2] + 1 ELSE 1)
                          * (IF d >= 3 THEN s[3] + 1 ELSE 1)
  IN /\ (op = "dim" /\ out.ok) => out.val = d /\ out.val \in 1..3
     /\ (op \in {"nC", "len"} /\ out.ok) => out.val = cells
     /\ (op = "nN" /\ out.ok) => out.val = nodeCount

C6_Witness ==
  /\ op = "nN" /\ out.ok
  /\ shape = Some(<<2, 3, 1>>)
  /\ out.val = 24

\* whether rows is made of one block per axis a < d, in the order x, y, z,
\* block a holding counts[a+1] rows equal to the unit vector of axis a
UnitBlocks(rows, counts, d) ==
  /\ Len(counts) = d
  /\ Len(rows) = Sum(counts)
  /\ \A k \in 1..Len(rows) :
       \E a \in 0..(d - 1) :
         /\ Sum(Take(counts, a)) < k
         /\ k <= Sum(Take(counts, a + 1))
         /\ rows[k] = [i \in 1..d |-> IF i = a + 1 THEN 1 ELSE 0]

\* C9 as stated: on a mesh of dimension 1, 2 or 3 normals is an (nF, dim)
\* array and tangents an (nE, dim) array of per-axis blocks of unit vectors,
\* block a having as many rows as axis a has faces (edges).
C9_AsStated ==
  LET s == Get(shape)
  IN /\ (op = "normals" /\ out.ok) =>
          /\ out.val # None
          /\ UnitBlocks(Get(out.val),
                        [a \in 1..Len(s) |-> AxisProduct(s, a - 1, 1, 0)], Len(s))
     /\ (op = "tangents" /\ out.ok) =>
          /\ out.val # None
          /\ UnitBlocks(Get(out.val),
                        [a \in 1..Len(s) |-> AxisProduct(s, a - 1, 0, 1)], Len(s))

\* the blocks of unit vectors on a mesh of two axes
C9_Witness ==
  /\ op = "normals" /\ out.ok
  /\ shape = Some(<<1, 2>>)
  /\ Get(out.val) = <<<<1, 0>>, <<1, 0>>, <<1, 0>>, <<1, 0>>, <<0, 1>>, <<0, 1>>, <<0, 1>>>>

\* C7 as stated: in every state len(shape) = len(x0) lies in 1..3; an
\* assignment of a shape of another length fails with the dimension-change
\* error (or, beyond 3 entries, the dimension error), an assignment of an x0
\* of another length fails with the dimension-mismatch error.
C7_AsStated ==
  /\ shape # None
  /\ x0 # None
  /\ Len(Get(shape)) = Len(Get(x0))
  /\ Len(Get(shape)) \in 1..3
  /\ (op = "set_shape" /\ Len(Get(arg)) # Len(Get(x0))) =>
       /\ ~out.ok
       /\ out.err = IF Len(Get(arg)) > 3 THEN "DimensionError" ELSE "DimensionChange"
  /\ (op = "set_x0" /\ Len(Get(arg)) # Len(Get(shape))) =>
       /\ ~out.ok
       /\ out.err = "DimensionMismatch"

\* an x0 of another length is refused with the dimension-mismatch error and
\* the fields keep their values
C7_Witness ==
  /\ op = "set_x0" /\ ~out.ok
  /\ out.err = "DimensionMismatch"
  /\ shape = Some(<<2, 2>>)
  /\ x0 = Some(<<0, 0>>)
  /\ Len(Get(arg)) = 3

(* ----------------------------- construction ---------------------------- *)
\* the directions offered as axis_u, axis_v, axis_w
AxisVectors == {<<1, 0, 0>>, <<0, 1, 0>>, <<0, 0, 1>>, <<1, 1, 0>>}

\* the axis keyword arguments: none, or all three
AxisKwargs == {None} \cup {Some(<<u, v, w>>) : u \in AxisVectors, v \in AxisVectors, w \in AxisVectors}

Orthogonal(t) == Dot(t[1], t[2]) = 0 /\ Dot(t[1], t[3]) = 0 /\ Dot(t[2], t[3]) = 0

\* the width arrays offered as entries of h
WidthArrays == {<<2>>, <<2, 2>>}

\* the object an __init__ leaves behind: its fields if it returned
Built(c, res) ==
  /\ cls' = IF res.ok THEN c ELSE cls
  /\ shape' = IF res.ok THEN res.val.shape ELSE shape
  /\ x0' = IF res.ok THEN res.val.x0 ELSE x0
  /\ out' = res

\* one construction is attempted from a state without an object
ConstructBaseMesh(shape_in, x0_in, kwargs) ==
  /\ cls = "none" /\ op = "init"
  /\ op' = "BaseMesh"
  /\ arg' = [shape |-> shape_in, x0 |-> x0_in, axes |-> kwargs]
  /\ Built("BaseMesh", BaseMesh__init__(shape_in, Some(x0_in), kwargs))
  /\ UNCHANGED <<h, nodes, cache, calls>>

ConstructTensorMesh(h_in, x0_in, kwargs) ==
  /\ cls = "none" /\ op = "init"
  /\ op' = "BaseTensorMesh"
  /\ arg' = [h |-> h_in, x0 |-> x0_in, axes |-> kwargs]
  /\ Built("BaseTensorMesh", BaseTensorMesh__init__(h_in, x0_in, kwargs))
  /\ UNCHANGED <<h, nodes, cache, calls>>

\* no object yet
InitNone ==
  /\ cls = "none"
  /\ shape = None
  /\ x0 = None
  /\ h = None
  /\ cache = <<>>
  /\ nodes = None
  /\ calls = <<>>
  /\ op = "init"
  /\ arg = None
  /\ out = Ok(None)

NewBaseMesh ==
  /\ op = "init"
  /\ \E s \in SeqsUpTo(ShapeEntries, MaxDimIn), n \in 0..MaxDimIn, k \in AxisKwargs :
       ConstructBaseMesh(s, Rep(n, 0), k)

NewTensorMesh ==
  /\ op = "init"
  /\ \E hh \in SeqsUpTo(WidthArrays, MaxDimIn), n \in 0..MaxDimIn, k \in AxisKwargs :
       ConstructTensorMesh(hh, Rep(n, Num(0)), k)

NextInit == NewBaseMesh \/ NewTensorMesh

SpecInit == InitNone /\ [][NextInit]_vars

\* C8 as stated: a construction given axis_u, axis_v, axis_w that are not
\* pairwise orthogonal fails with the orthogonality error and yields no
\* mesh, for BaseMesh and for the subclass that forwards the axes.
C8_AsStated ==
  (op \in {"BaseMesh", "BaseTensorMesh"} /\ arg.axes # None /\ ~Orthogonal(Get(arg.axes))) =>
    /\ ~out.ok
    /\ cls = "none"
    /\ out.err = "ValidationError"
    /\ \E i \in 1..Len(out.val) : out.val[i] = "OrthogonalityError"

(* ------------------- tensor mesh: reads and reshapes ------------------- *)
\* the widths of an axis of n cells: all 1, or 1, 2, 3, ... (in halves)
HAxis(n) == {Rep(n, 2), [i \in 1..n |-> 2 * i]}

\* the h of the meshes drawn: one axis of up to MaxN1 cells, or two or
\* three axes of up to MaxN cells
HLists ==
  {<<w>> : w \in UNION {HAxis(n) : n \in 1..MaxN1}}
  \cup UNION {[1..d -> UNION {HAxis(n) : n \in 1..MaxN}] : d \in 2..3}

\* the origins drawn for a mesh of d axes: 0 on every axis, or -1, -2, -3
Origins(d) == {Rep(d, 0), [i \in 1..d |-> -2 * i]}

\* the mesh held by the fields
Mesh == [shape |-> Get(shape), x0 |-> Get(x0), h |-> Get(h)]

VectorProps == {"vectorNx", "vectorNy", "vectorNz", "vectorCCx", "vectorCCy", "vectorCCz"}

VectorValue(p, m) ==
  CASE p = "vectorNx" -> vectorNx(m)
    [] p = "vectorNy" -> vectorNy(m)
    [] p = "vectorNz" -> vectorNz(m)
    [] p = "vectorCCx" -> vectorCCx(m)
    [] p = "vectorCCy" -> vectorCCy(m)
    [] p = "vectorCCz" -> vectorCCz(m)

GridKeys == {"CC", "N", "Fx", "Fy", "Fz", "Ex", "Ey", "Ez"}

\* the axis a grid property is guarded by: gridFy and gridEy return None
\* below 2 axes, gridFz and gridEz below 3
GuardAxis(key) ==
  IF key \in {"Fy", "Ey"} THEN 2 ELSE IF key \in {"Fz", "Ez"} THEN 3 ELSE 1

\* a tensor mesh whose shape holds the lengths of the arrays of h
InitTensor ==
  /\ cls = "TensorMesh"
  /\ \E hh \in HLists :
       /\ h = Some(hh)
       /\ shape = Some([i \in 1..Len(hh) |-> Len(hh[i])])
       /\ \E o \in Origins(Len(hh)) : x0 = Some(o)
  /\ cache = <<>>
  /\ nodes = None
  /\ calls = <<>>
  /\ op = "init"
  /\ arg = None
  /\ out = Ok(None)

\* Each behaviour makes one read or one call on the mesh drawn.
ReadTensorBase(p) ==
  /\ cls = "TensorMesh" /\ op = "init"
  /\ op' = p
  /\ arg' = None
  /\ out' = IF p = "shape" THEN Ok(shape) ELSE ReadProp(p, shape)
  /\ UNCHANGED <<cls, shape, x0, h, nodes, cache, calls>>

ReadVector(p) ==
  /\ cls = "TensorMesh" /\ op = "init"
  /\ op' = p
  /\ arg' = None
  /\ out' = Ok(VectorValue(p, Mesh))
  /\ UNCHANGED <<cls, shape, x0, h, nodes, cache, calls>>

\* mesh.gridCC, ..., mesh.gridEz: the grid is computed if the object holds
\* none under '_grid' + key, stored there, and the stored one returned
ReadGrid(key) ==
  LET held == IF key \in DOMAIN cache THEN cache
              ELSE [k \in DOMAIN cache \cup {key} |->
                      IF k = key THEN _getTensorGrid(Mesh, key) ELSE cache[k]]
      guarded == dim(Get(shape)) < GuardAxis(key)
  IN /\ cls = "TensorMesh" /\ op = "init"
     /\ op' = "grid"
     /\ arg' = [key |-> key]
     /\ cache' = IF guarded THEN cache ELSE held
     /\ out' = IF guarded THEN Ok(None) ELSE Ok(Some(held[key]))
     /\ UNCHANGED <<cls, shape, x0, h, nodes, calls>>

\* the number of elements a quantity at location t has, 0 where the mesh
\* has no such location
ExpectedSize(s, t) ==
  LET opt(o) == IF o = None THEN 0 ELSE Get(o)
  IN CASE t = "CC" -> nC(s)
       [] t = "N" -> nN(s)
       [] t = "F" -> nF(s)
       [] t = "E" -> nE(s)
       [] t = "Fx" -> nFx(s)
       [] t = "Fy" -> opt(nFy(s))
       [] t = "Fz" -> opt(nFz(s))
       [] t = "Ex" -> nEx(s)
       [] t = "Ey" -> opt(nEy(s))
       [] t = "Ez" -> opt(nEz(s))

\* the flat array 0, 1, ..., n-1: element k is named by its value
Ramp(n) == Arr1([k \in 1..n |-> k - 1])

\* the arrays handed to r: a flat array of the size of the location, the
\* nodal grid, or one of the matrices r made from the nodal grid
XSources == {"flat", "gridN", "gridN_M1", "gridN_M2", "gridN_M3"}

GridNMatrices(m) == r(m.shape, _getTensorGrid(m, "N"), "N", "N", "M")

MatrixIndex(src) == IF src = "gridN_M1" THEN 1 ELSE IF src = "gridN_M2" THEN 2 ELSE 3

HasX(m, src) ==
  IF src \in {"flat", "gridN"} THEN TRUE
  ELSE IF GridNMatrices(m).ok
       THEN MatrixIndex(src) <= Len(GridNMatrices(m).val.items)
       ELSE FALSE

XOf(m, src, xType) ==
  IF src = "flat" THEN Ramp(ExpectedSize(m.shape, xType))
  ELSE IF src = "gridN" THEN _getTensorGrid(m, "N")
  ELSE GridNMatrices(m).val.items[MatrixIndex(src)]

\* mesh.r(x, xType, outType, format)
CallR(src, xType, outType, format) ==
  /\ cls = "TensorMesh" /\ op = "init"
  /\ src # "flat" => xType = "N" /\ outType = "N"
  /\ HasX(Mesh, src)
  /\ LET x == XOf(Mesh, src, xType)
     IN /\ arg' = [src |-> src, x |-> x, xType |-> xType,
                   outType |-> outType, format |-> format]
        /\ out' = r(Get(shape), x, xType, outType, format)
  /\ op' = "r"
  /\ UNCHANGED <<cls, shape, x0, h, nodes, cache, calls>>

NextTensor ==
  \/ \E p \in BaseProps \cup {"shape"} : ReadTensorBase(p)
  \/ \E p \in VectorProps : ReadVector(p)
  \/ \E key \in GridKeys : ReadGrid(key)
  \/ \E src \in XSources, xType \in allowed_xType, outType \in allowed_xType,
        format \in {"M", "V"} : CallR(src, xType, outType, format)

SpecTensor == InitTensor /\ [][NextTensor]_vars

(* ----------------------- claims on the tensor mesh --------------------- *)
\* the lengths of the vectors of a tensor
Lens(t) == [j \in 1..Len(t) |-> Len(t[j])]

\* the multi-indices (i0, i1, i2) of a block of extents n
MultiIndices(n) == {idx \in [1..Len(n) -> 0..MaxN1] : \A j \in 1..Len(n) : idx[j] < n[j]}

\* k = i0 + n0*(i1 + n1*i2)
FlatIndex(n, idx) ==
  idx[1] + (IF Len(n) >= 2 THEN n[1] * idx[2] ELSE 0)
         + (IF Len(n) >= 3 THEN n[1] * n[2] * idx[3] ELSE 0)

\* C1: for a location key valid for the dimension, row k = i0 + n0*(i1 + n1*i2)
\* of grid(key) holds (t0[i0], t1[i1], t2[i2]) for the vectors t of
\* getTensor(key), and r(x, key, key, 'M') puts flat element k of x at the
\* matrix index (i0, i1, i2) of the same numbering.
C1_GridAndReshapeOrder ==
  LET m == Mesh
      d == Len(m.shape)
  IN /\ (op = "grid" /\ d >= GuardAxis(arg.key)) =>
          LET t == getTensor(m, arg.key)
              n == Lens(t)
          IN /\ out.ok
             /\ out.val # None
             /\ Get(out.val).shape = <<Prod(n), d>>
             /\ \A idx \in MultiIndices(n) : \A j \in 1..d :
                  At(Get(out.val), <<FlatIndex(n, idx), j - 1>>) = t[j][idx[j] + 1]
     /\ (/\ op = "r"
         /\ arg.src = "flat"
         /\ arg.xType \in GridKeys
         /\ arg.outType = arg.xType
         /\ arg.format = "M"
         /\ d >= GuardAxis(arg.xType)) =>
          LET n == Lens(getTensor(m, arg.xType))
          IN /\ out.ok
             /\ out.val.shape = n
             /\ \A idx \in MultiIndices(n) :
                  At(out.val, idx) = arg.x.data[FlatIndex(n, idx) + 1]

C1_Witness ==
  /\ op = "r" /\ out.ok
  /\ arg.src = "flat" /\ arg.xType = "Fy" /\ arg.outType = "Fy" /\ arg.format = "M"
  /\ shape = Some(<<2, 2, 2>>)
  /\ out.val.shape = <<2, 3, 2>>
  /\ At(out.val, <<1, 2, 1>>) = 11

\* C2 as stated: for every shape of 1 to 3 axes, axes of a single cell
\* included, r(gridN, 'N', 'N', 'M') succeeds with one matrix per axis, and
\* r of each matrix with 'N', 'N', 'V' succeeds and is the column of gridN
\* of that axis.
C2_AsStated ==
  LET gridN == _getTensorGrid(Mesh, "N")
  IN /\ (op = "r" /\ arg.src = "gridN" /\ arg.format = "M") =>
          /\ out.ok
          /\ Len(out.val.items) = Len(Get(shape))
     /\ (op = "r" /\ arg.src \in {"gridN_M1", "gridN_M2", "gridN_M3"} /\ arg.format = "V") =>
          /\ out.ok
          /\ out.val = Column(gridN, MatrixIndex(arg.src) - 1)

\* the round trip on a mesh with more than one cell along y
C2_Witness ==
  /\ op = "r" /\ out.ok
  /\ arg.src = "gridN_M2" /\ arg.format = "V"
  /\ shape = Some(<<1, 2>>)
  /\ out.val = Column(_getTensorGrid(Mesh, "N"), 1)

\* the axis a vector property reads, and whether it reads the nodes
VectorAxis(p) ==
  IF p \in {"vectorNx", "vectorCCx"} THEN 1
  ELSE IF p \in {"vectorNy", "vectorCCy"} THEN 2 ELSE 3

\* C10: on axis a the node vector has len(h[a]) + 1 entries, N[0] = x0[a] and
\* N[k] = x0[a] + sum(h[a][0..k-1]); the centre vector has len(h[a]) entries,
\* C[k] = (N[k] + N[k+1]) / 2; h = [1,1,1,1] with origin [0] has shape [4],
\* nC = 4, nN = 5, nodes [0,1,2,3,4] and centres [0.5,1.5,2.5,3.5] (the
\* coordinates are counted in halves).
C10_NodeAndCentreVectors ==
  LET hh == Get(h)
      a == VectorAxis(op)
      v == IF a = 1 THEN out.val ELSE Get(out.val)
      N(k) == Get(x0)[a] + Sum(Take(hh[a], k))
  IN /\ (op \in {"vectorNx", "vectorNy", "vectorNz"} /\ a <= Len(hh)) =>
          /\ out.ok
          /\ Len(v) = Len(hh[a]) + 1
          /\ v[1] = Get(x0)[a]
          /\ \A k \in 0..Len(hh[a]) : v[k + 1] = N(k)
     /\ (op \in {"vectorCCx", "vectorCCy", "vectorCCz"} /\ a <= Len(hh)) =>
          /\ out.ok
          /\ Len(v) = Len(hh[a])
          /\ \A k \in 0..(Len(hh[a]) - 1) : 2 * v[k + 1] = N(k) + N(k + 1)
     /\ (h = Some(<<<<2, 2, 2, 2>>>>) /\ x0 = Some(<<0>>)) =>
          /\ shape = Some(<<4>>)
          /\ op = "nC" => out = Ok(4)
          /\ op = "nN" => out = Ok(5)
          /\ op = "vectorNx" => out = Ok(<<0, 2, 4, 6, 8>>)
          /\ op = "vectorCCx" => out = Ok(<<1, 3, 5, 7>>)

C10_Witness ==
  /\ op = "vectorCCx" /\ out.ok
  /\ h = Some(<<<<2, 2, 2, 2>>>>)
  /\ x0 = Some(<<0>>)
  /\ out.val = <<1, 3, 5, 7>>

(* ------------------ tensor mesh: assignments to shape, h --------------- *)
\* the h of the meshes assigned to: 1 to 3 axes of one or two unit cells
AssignMeshes == UNION {[1..d -> WidthArrays] : d \in 1..3}

\* a tensor mesh whose shape holds the lengths of the arrays of h, at the
\* origin
InitAssign ==
  /\ cls = "TensorMesh"
  /\ \E hh \in AssignMeshes :
       /\ h = Some(hh)
       /\ shape = Some([i \in 1..Len(hh) |-> Len(hh[i])])
       /\ x0 = Some(Rep(Len(hh), 0))
  /\ cache = <<>>
  /\ nodes = None
  /\ calls = <<>>
  /\ op = "init"
  /\ arg = None
  /\ out = Ok(None)

\* mesh.shape = v on a tensor mesh: the validators of the shape field are
\* those of BaseMesh, and none of them reads h
SetShape(v) ==
  LET res == _check_shape(v, [k \in {"x0"} |-> x0])
  IN /\ cls = "TensorMesh"
     /\ op' = "set_shape"
     /\ arg' = [shape |-> v]
     /\ out' = res
     /\ shape' = IF res.ok THEN res.val ELSE shape
     /\ UNCHANGED <<cls, x0, h, nodes, cache, calls>>

\* mesh.h = v: the pre-validator of h reads no other field and returns the
\* list it built, which the field then holds
SetH(v) ==
  LET res == _prevalid_h(v)
  IN /\ cls = "TensorMesh"
     /\ op' = "set_h"
     /\ arg' = [h |-> v]
     /\ out' = IF res.ok THEN Ok(None) ELSE res
     /\ h' = IF res.ok THEN Some(res.val) ELSE h
     /\ UNCHANGED <<cls, shape, x0, nodes, cache, calls>>

\* mesh.gridCC on the fields as they are: the stored grid if there is one,
\* else the grid of getTensor('CC'), which reads len(shape) and indexes h
GridCCOutcome ==
  IF "CC" \in DOMAIN cache THEN Ok(cache["CC"])
  ELSE IF Len(Get(h)) = 0 THEN Raise("IndexError")
  ELSE IF shape = None THEN Raise("TypeError")
  ELSE IF Len(Get(shape)) > Len(Get(h)) THEN Raise("IndexError")
  ELSE Ok(_getTensorGrid(Mesh, "CC"))

ReadGridCC ==
  LET res == GridCCOutcome
  IN /\ cls = "TensorMesh"
     /\ op' = "gridCC"
     /\ arg' = [computed |-> "CC" \notin DOMAIN cache]
     /\ out' = res
     /\ cache' = IF res.ok THEN [k \in {"CC"} |-> res.val] ELSE cache
     /\ UNCHANGED <<cls, shape, x0, h, nodes, calls>>

NextAssign ==
  \/ \E v \in SeqsUpTo(ShapeEntries, MaxDimIn) : SetShape(v)
  \/ \E v \in SeqsUpTo(WidthArrays, MaxDimIn) : SetH(v)
  \/ ReadGridCC

SpecAssign == InitAssign /\ [][NextAssign]_vars

\* C11 as stated: in every state reached by assignments to shape or h that
\* succeeded, shape[i] = len(h[i]) on every axis i.
C11_AsStated ==
  /\ shape # None
  /\ Len(Get(shape)) = Len(Get(h))
  /\ \A i \in 1..Len(Get(h)) : Get(shape)[i] = Len(Get(h)[i])

\* an assignment to h that was refused leaves shape and h in agreement
C11_Witness ==
  /\ op = "set_h" /\ ~out.ok
  /\ out.err = "DimensionError"
  /\ shape = Some(<<2, 1>>)
  /\ h = Some(<<<<2, 2>>, <<2>>>>)

\* the least and the greatest entry of a non-empty sequence
MinOf(t) == CHOOSE v \in {t[i] : i \in 1..Len(t)} : \A i \in 1..Len(t) : v <= t[i]
MaxOf(t) == CHOOSE v \in {t[i] : i \in 1..Len(t)} : \A i \in 1..Len(t) : v >= t[i]

\* shape[i] = len(h[i]) on every axis
ShapeAgreesWithH ==
  /\ shape # None
  /\ Len(Get(shape)) = Len(Get(h))
  /\ \A i \in 1..Len(Get(h)) : Get(shape)[i] = Len(Get(h)[i])

\* C12 as stated: gridCC has nC rows and d columns, and every value of
\* column a lies strictly between the least and the greatest node of axis a
\* (read on a mesh whose shape agrees with h, the grid computed by this read).
C12_AsStated ==
  (op = "gridCC" /\ arg.computed /\ ShapeAgreesWithH) =>
    /\ out.ok
    /\ out.val.shape = <<nC(Get(shape)), Len(Get(shape))>>
    /\ \A a \in 1..Len(Get(shape)) : \A k \in 1..out.val.shape[1] :
         LET axisNodes == NodeVector(Get(h)[a], Get(x0)[a])
         IN /\ MinOf(axisNodes) < At(out.val, <<k - 1, a - 1>>)
            /\ At(out.val, <<k - 1, a - 1>>) < MaxOf(axisNodes)

\* the centres of a mesh of two cells along x and two along y
C12_Witness ==
  /\ op = "gridCC" /\ arg.computed /\ out.ok
  /\ h = Some(<<<<2, 2>>, <<2, 2>>>>)
  /\ shape = Some(<<2, 2>>)
  /\ out.val = Arr(<<4, 2>>, <<1, 1, 3, 1, 1, 3, 3, 3>>)

(* --------------------- rectangular mesh: calls of r -------------------- *)
\* the shapes of the meshes r is called on: 1 to 3 axes of 1..MaxN cells
RShapes == UNION {[1..d -> 1..MaxN] : d \in 1..3}

\* the location names and formats offered to r: the allowed ones and one
\* that is not
RTypes == allowed_xType \cup {"Q"}
RFormats == {"M", "V", "X"}

\* the x offered to r for a location: a flat array one element short of,
\* equal to, or one element beyond the size of the location, or a list of
\* 0 to 2 flat arrays of that size or of unequal sizes
XKinds == {"short", "exact", "long", "list0", "list1", "list2", "listUneven"}

XOfKind(s, xType, kind) ==
  LET n == IF xType = "Q" THEN nC(s) ELSE ExpectedSize(s, xType)
  IN CASE kind = "short" -> Ramp(n - 1)
       [] kind = "exact" -> Ramp(n)
       [] kind = "long" -> Ramp(n + 1)
       [] kind = "list0" -> [list |-> <<>>]
       [] kind = "list1" -> [list |-> <<Ramp(n)>>]
       [] kind = "list2" -> [list |-> <<Ramp(n), Ramp(n)>>]
       [] kind = "listUneven" -> [list |-> <<Ramp(n), Ramp(n + 1)>>]

InitR ==
  /\ cls = "BaseRectangularMesh"
  /\ \E s \in RShapes : shape = Some(s) /\ x0 = Some(Rep(Len(s), 0))
  /\ h = None
  /\ cache = <<>>
  /\ nodes = None
  /\ calls = <<>>
  /\ op = "init"
  /\ arg = None
  /\ out = Ok(None)

\* mesh.r(x, xType, outType, format) with a flat array
CallRFlat(kind, xType, outType, format) ==
  /\ cls = "BaseRectangularMesh" /\ op = "init"
  /\ kind \in {"short", "exact", "long"}
  /\ kind = "short" => XOfKind(Get(shape), xType, "exact").shape[1] > 0
  /\ LET x == XOfKind(Get(shape), xType, kind)
     IN /\ arg' = [kind |-> kind, x |-> x, xType |-> xType,
                   outType |-> outType, format |-> format]
        /\ out' = r(Get(shape), x, xType, outType, format)
  /\ op' = "r"
  /\ UNCHANGED <<cls, shape, x0, h, nodes, cache, calls>>

\* mesh.r(x, xType, outType, format) with a list of arrays
CallRList(kind, xType, outType, format) ==
  /\ cls = "BaseRectangularMesh" /\ op = "init"
  /\ kind \in {"list0", "list1", "list2", "listUneven"}
  /\ LET x == XOfKind(Get(shape), xType, kind)
     IN /\ arg' = [kind |-> kind, x |-> x, xType |-> xType,
                   outType |-> outType, format |-> format]
        /\ out' = r(Get(shape), x, xType, outType, format)
  /\ op' = "rlist"
  /\ UNCHANGED <<cls, shape, x0, h, nodes, cache, calls>>

FlatCalls ==
  /\ op = "init"
  /\ \E kind \in XKinds, xType \in RTypes, outType \in RTypes, format \in RFormats :
       CallRFlat(kind, xType, outType, format)

ListCalls ==
  /\ op = "init"
  /\ \E kind \in XKinds, xType \in RTypes, outType \in RTypes, format \in RFormats :
       CallRList(kind, xType, outType, format)

NextR == FlatCalls \/ ListCalls

SpecR == InitR /\ [][NextR]_vars

(* ----------------------------- claims on r ----------------------------- *)
\* outType names the location of xType, or one axis component of it
Refines(xType, outType) ==
  \/ outType = xType
  \/ xType = "F" /\ outType \in {"Fx", "Fy", "Fz"}
  \/ xType = "E" /\ outType \in {"Ex", "Ey", "Ez"}

\* the locations of the spec: cell centres, nodes, faces and edges, whole
\* or by axis
Locations == {"CC", "N", "F", "Fx", "Fy", "Fz", "E", "Ex", "Ey", "Ez"}

\* whether a mesh of shape s has the location t
LocationExists(s, t) ==
  /\ t \in Locations
  /\ t \in {"Fy", "Ey"} => Len(s) >= 2
  /\ t \in {"Fz", "Ez"} => Len(s) >= 3

\* C13: r returns a result only when both types are allowed, the format is
\* 'V' or 'M', outType refines xType and x has as many elements as the
\* location xType; every other call raises an error.  (A call that meets
\* these conditions returns data exactly when the mesh has the location
\* outType.)
C13_ReturnsOnlyRefinements ==
  op = "r" =>
    LET s == Get(shape)
        conditions ==
          /\ arg.xType \in Locations
          /\ arg.outType \in Locations
          /\ arg.format \in {"M", "V"}
          /\ Refines(arg.xType, arg.outType)
          /\ LocationExists(s, arg.xType)
          /\ Size(arg.x) = ExpectedSize(s, arg.xType)
    IN /\ out.ok => conditions
       /\ ~conditions => ~out.ok
       /\ out.ok <=> (conditions /\ LocationExists(s, arg.outType))
       /\ out.ok => out.val # None

C13_Witness ==
  /\ op = "r" /\ out.ok
  /\ arg.xType = "F" /\ arg.outType = "Fy" /\ arg.format = "V" /\ arg.kind = "exact"
  /\ shape = Some(<<2, 2>>)
  /\ out.val = Arr1(<<6, 7, 8, 9, 10, 11>>)

\* the axis (from 0) a component name ends with
AxisOfName(t) == IF t \in {"Fx", "Ex"} THEN 0 ELSE IF t \in {"Fy", "Ey"} THEN 1 ELSE 2

\* the extents of the faces (atAxis = 1, elsewhere = 0) or edges (0, 1) of
\* axis a on a mesh of shape s
AxisExtents(s, a, atAxis, elsewhere) ==
  [i \in 1..Len(s) |-> s[i] + (IF i = a + 1 THEN atAxis ELSE elsewhere)]

RECURSIVE Concat(_)
Concat(seqs) == IF seqs = <<>> THEN <<>> ELSE Head(seqs) \o Concat(Tail(seqs))

\* C14: for a flat x of length nF, r(x, 'F', 'Fa', 'V') is the block of x
\* that starts at the sum of the face counts of the axes before a and has the
\* length of the face count of a; with 'M' the block has the shape vnFa (in
\* Fortran order); the components of r(x, 'F', 'F', 'V') concatenated are x;
\* likewise for edges with 'E'; the component of an axis >= dim raises.
C14_ComponentBlocks ==
  (op = "r" /\ arg.kind = "exact" /\ arg.xType \in {"F", "E"}
     /\ Refines(arg.xType, arg.outType) /\ arg.format \in {"M", "V"}) =>
    LET s == Get(shape)
        d == Len(s)
        atAxis == IF arg.xType = "F" THEN 1 ELSE 0
        count(a) == AxisProduct(s, a, atAxis, 1 - atAxis)
        start(a) == IF a = 0 THEN 0
                    ELSE IF a = 1 THEN count(0) ELSE count(0) + count(1)
        block(a) == SubSeq(arg.x.data, start(a) + 1, start(a) + count(a))
    IN IF arg.outType = arg.xType
       THEN /\ out.ok
            /\ Len(out.val.items) = d
            /\ arg.format = "V" =>
                 /\ \A a \in 0..(d - 1) : out.val.items[a + 1] = Arr1(block(a))
                 /\ Concat([a \in 1..d |-> out.val.items[a].data]) = arg.x.data
            /\ arg.format = "M" =>
                 \A a \in 0..(d - 1) :
                   out.val.items[a + 1].shape = AxisExtents(s, a, atAxis, 1 - atAxis)
       ELSE LET a == AxisOfName(arg.outType)
                n == AxisExtents(s, a, atAxis, 1 - atAxis)
            IN IF a >= d THEN ~out.ok
               ELSE /\ out.ok
                    /\ arg.format = "V" => out.val = Arr1(block(a))
                    /\ arg.format = "M" =>
                         /\ out.val.shape = n
                         /\ \A idx \in MultiIndices(n) :
                              At(out.val, idx) = block(a)[FlatIndex(n, idx) + 1]

C14_Witness ==
  /\ op = "r" /\ out.ok
  /\ arg.kind = "exact" /\ arg.xType = "E" /\ arg.outType = "Ey" /\ arg.format = "M"
  /\ shape = Some(<<2, 1>>)
  /\ out.val.shape = <<3, 1>>
  /\ FlatF(out.val) = <<4, 5, 6>>

\* C15 as stated: r accepts a list of numpy arrays of one size (stacked
\* column-wise and reshaped component by component) and fails only when an
\* element is no numpy array or the sizes differ.
C15_AsStated ==
  (op = "rlist" /\ arg.kind \in {"list1", "list2"}
     /\ arg.xType \in {"CC", "N"} /\ arg.outType = arg.xType
     /\ arg.format \in {"M", "V"}) =>
    out.ok

\* a list of arrays of unequal sizes is refused
C15_Witness ==
  /\ op = "rlist" /\ ~out.ok
  /\ arg.kind = "listUneven" /\ arg.xType = "CC" /\ arg.outType = "CC"
  /\ arg.format = "V"
  /\ shape = Some(<<2, 2>>)

(* ---------------- tensor mesh: points and interpolation ---------------- *)
\* the greatest number of points handed to one call
MaxPts == 2

\* A coordinate of a point is a pair <<c, e>>: c counts halves and e counts
\* 1e-10 halves, so that the tolerance 1e-10 * spacing is a whole number of
\* the second unit. Pairs are compared first by c, then by e.
Leq(a, b) == IF a[1] = b[1] THEN a[2] <= b[2] ELSE a[1] < b[1]

\* np.diff(tensor)
Diff(t) == [k \in 1..(Len(t) - 1) |-> t[k + 1] - t[k]]

\* mesh.isInside(pts, locType) on a mesh whose _meshType is 'BASETENSOR'
\* (the nodes added for 'CYL' are not reached): pts is an array of one row
\* per point and one column per axis. np.diff(tensor).min() raises a
\* ValueError on a tensor of one entry, whose np.diff is empty
isInside(m, pts, locType) ==
  LET tensors == getTensor(m, locType)
      within(p, i) ==
        LET TOL == MinOf(Diff(tensors[i]))
        IN /\ Leq(<<MinOf(tensors[i]), -TOL>>, pts[p][i])
           /\ Leq(pts[p][i], <<MaxOf(tensors[i]), TOL>>)
  IN IF \E i \in 1..Len(tensors) : Len(tensors[i]) < 2
     THEN Raise("ValueError")
     ELSE Ok([p \in 1..Len(pts) |-> \A i \in 1..Len(tensors) : within(p, i)])

\* the meshes points are located in: one to three axes of one cell of width
\* 1 or of two cells of widths 1 and 3, the origin at 0 (the nodes are 0, 2
\* and 8 halves, the centres 1 and 5, the mean of the centres 3)
PointWidths == {<<2>>, <<2, 6>>}
PointMeshes ==
  UNION {[1..d -> PointWidths] : d \in 1..2}
  \cup {<<(<<2, 6>>), (<<2, 6>>), (<<2, 6>>)>>, <<(<<2>>), (<<2, 6>>), (<<2, 6>>)>>}

\* the coordinates offered on an axis of a mesh of d axes: at, just within
\* and just beyond the tolerance around the first and last nodes and centres
CoordSet(d) ==
  IF d = 1 THEN {<<0, -3>>, <<0, -2>>, <<1, -5>>, <<1, -4>>, <<2, 2>>,
                 <<2, 3>>, <<5, 4>>, <<5, 5>>, <<8, 2>>, <<8, 3>>}
  ELSE IF d = 2 THEN {<<0, -3>>, <<1, 0>>, <<8, 2>>}
  ELSE {<<1, 0>>, <<8, 3>>}

\* the arrays of points offered to a mesh of d axes: 1..MaxPts rows
PointArrays(d) == UNION {[1..n -> [1..d -> CoordSet(d)]] : n \in 1..MaxPts}

InitPoints ==
  /\ cls = "TensorMesh"
  /\ \E hh \in PointMeshes :
       /\ h = Some(hh)
       /\ shape = Some([i \in 1..Len(hh) |-> Len(hh[i])])
       /\ x0 = Some(Rep(Len(hh), 0))
  /\ cache = <<>>
  /\ nodes = None
  /\ calls = <<>>
  /\ op = "init"
  /\ arg = None
  /\ out = Ok(None)

\* mesh.isInside(pts, locType)
CallIsInside(pts, locType) ==
  /\ cls = "TensorMesh" /\ op = "init"
  /\ op' = "isInside"
  /\ arg' = [pts |-> pts, locType |-> locType]
  /\ out' = isInside(Mesh, pts, locType)
  /\ UNCHANGED <<cls, shape, x0, h, nodes, cache, calls>>

\* A sparse matrix is its shape, its storage format and, for every row, the
\* set of the entries stored in the row, each a column and a value.
Sparse(sh, fmt, rows) == [shape |-> sh, format |-> fmt, rows |-> rows]

Entry(c, v) == [col |-> c, val |-> v]

\* the sequence f[1], ..., f[n]
Listed(f, n) == SubSeq(f, 1, n)

\* utils.spzeros(n1, n2): a matrix of the diagonal format that stores nothing
spzeros(n1, n2) == Sparse(<<n1, n2>>, "dia", Rep(n1, {}))

\* The weights of the linear basis functions of the tensor t at the
\* coordinate c, kept as exact fractions num / den: the two neighbours of c
\* share the weight, a coordinate at or beyond an end has weight 1 there.
Weight(num, den) == [num |-> num, den |-> den]

Basis1D(t, c) ==
  IF Len(t) = 1 THEN {Entry(1, Weight(<<1, 0>>, 1))}
  ELSE IF Leq(c, <<t[1], 0>>) THEN {Entry(1, Weight(<<1, 0>>, 1))}
  ELSE IF Leq(<<t[Len(t)], 0>>, c) THEN {Entry(Len(t), Weight(<<1, 0>>, 1))}
  ELSE LET k == CHOOSE k \in 1..(Len(t) - 1) :
                  Leq(<<t[k], 0>>, c) /\ ~Leq(<<t[k + 1], 0>>, c)
           d == t[k + 1] - t[k]
       IN IF c = <<t[k], 0>> THEN {Entry(k, Weight(<<1, 0>>, 1))}
          ELSE {Entry(k, Weight(<<t[k + 1] - c[1], -c[2]>>, d)),
                Entry(k + 1, Weight(<<c[1] - t[k], c[2]>>, d))}

\* the row of utils.interpmat for the point pt: at the column of every grid
\* location (Fortran order) whose basis functions are non-zero at pt, the
\* per-axis weights whose product is the value
RECURSIVE InterpRow(_, _, _)
InterpRow(pt, tensors, stride) ==
  IF tensors = <<>> THEN {Entry(1, <<>>)}
  ELSE LET rest == InterpRow(Tail(pt), Tail(tensors), stride * Len(tensors[1]))
       IN {Entry(e.col + stride * (b.col - 1), <<b.val>> \o e.val) :
             b \in Basis1D(tensors[1], pt[1]), e \in rest}

\* utils.interpmat(loc, *tensors): one row per point, stored as csr
interpmat(loc, tensors) ==
  Sparse(<<Len(loc), Prod([i \in 1..Len(tensors) |-> Len(tensors[i])])>>, "csr",
         Listed([p \in 1..Len(loc) |-> InterpRow(loc[p], tensors, 1)], Len(loc)))

\* sp.hstack(blocks): the blocks side by side. The result is a coo matrix,
\* except that a build of scipy that stacks compressed blocks directly
\* hands back a single csr block as csr: fmt is the format of that case
hstack(blocks, fmt) ==
  LET off(b) == Sum([j \in 1..(b - 1) |-> blocks[j].shape[2]])
      n == blocks[1].shape[1]
      row(p) == UNION {{Entry(off(b) + e.col, e.val) : e \in blocks[b].rows[p]} :
                         b \in 1..Len(blocks)}
  IN Sparse(<<n, Sum([b \in 1..Len(blocks) |-> blocks[b].shape[2]])>>,
            IF Len(blocks) = 1 /\ blocks[1].format = "csr" THEN fmt ELSE "coo",
            Listed([p \in 1..n |-> row(p)], n))

\* Q[indZeros, :] = 0: a coo matrix does not support item assignment
SetRowsZero(Q, indZeros) ==
  IF Q.format = "coo" THEN Raise("TypeError")
  ELSE Ok(Sparse(Q.shape, Q.format,
                 Listed([p \in 1..Q.shape[1] |-> IF indZeros[p] THEN {} ELSE Q.rows[p]],
                        Q.shape[1])))

\* the vector of an axis-average: v.mean(), a whole number of halves on the
\* meshes drawn
Mean(v) == Sum(v) \div Len(v)

InterpLocTypes ==
  {"Fx", "Fy", "Fz", "Ex", "Ey", "Ez", "CC", "N", "CCVx", "CCVy", "CCVz", "F"}

\* mesh._getInterpolationMat(loc, locType, zerosOutside)
_getInterpolationMat(m, loc_in, locType, zerosOutside, fmt) ==
  LET n == Len(loc_in)
      inside == Listed(isInside(m, loc_in, "N").val, n)
      indZeros == Listed([p \in 1..n |-> ~inside[p]], n)
      centre == Listed([i \in 1..dim(m.shape) |-> <<Mean(getTensor(m, "CC")[i]), 0>>],
                       dim(m.shape))
      loc == IF zerosOutside
             THEN Listed([p \in 1..n |-> IF indZeros[p] THEN centre ELSE loc_in[p]], n)
             ELSE loc_in
      ind == IF locType \in {"Fx", "Ex"} THEN 0
             ELSE IF locType \in {"Fy", "Ey"} THEN 1 ELSE 2
      nF_nE == IF Contains(Chars(locType), <<"F">>) THEN vnF(m.shape) ELSE vnE(m.shape)
      components == Listed([a \in 1..Len(nF_nE) |->
                              IF a = ind + 1 THEN interpmat(loc, getTensor(m, locType))
                              ELSE spzeros(Len(loc), nF_nE[a])], Len(nF_nE))
      QCC == interpmat(loc, getTensor(m, "CC"))
      Z == spzeros(Len(loc), nC(m.shape))
      built ==
        IF locType \in {"Fx", "Fy", "Fz", "Ex", "Ey", "Ez"}
        THEN IF ~(dim(m.shape) >= ind) THEN Raise("AssertionError")
             ELSE IF ind + 1 > Len(nF_nE) THEN Raise("IndexError")
             ELSE Ok(hstack(components, fmt))
        ELSE IF locType \in {"CC", "N"}
        THEN Ok(interpmat(loc, getTensor(m, locType)))
        ELSE IF locType = "CCVx" THEN Ok(hstack(<<QCC, Z, Z>>, fmt))
        ELSE IF locType = "CCVy" THEN Ok(hstack(<<Z, QCC, Z>>, fmt))
        ELSE IF locType = "CCVz" THEN Ok(hstack(<<Z, Z, QCC>>, fmt))
        ELSE Raise("NotImplementedError")
      zeroed == IF zerosOutside THEN SetRowsZero(built.val, indZeros) ELSE built
  IN IF ~zerosOutside /\ (\E p \in 1..n : ~inside[p])
     THEN Raise("AssertionError")
     ELSE IF ~built.ok THEN built
     ELSE IF ~zeroed.ok THEN zeroed
     ELSE Ok(Sparse(zeroed.val.shape, "csr", zeroed.val.rows))

\* mesh.getInterpolationMat(loc, locType, zerosOutside)
getInterpolationMat(m, loc, locType, zerosOutside, fmt) ==
  _getInterpolationMat(m, loc, locType, zerosOutside, fmt)

CallGetInterpolationMat(pts, locType, zerosOutside, fmt) ==
  /\ cls = "TensorMesh" /\ op = "init"
  /\ op' = "getInterpolationMat"
  /\ arg' = [pts |-> pts, locType |-> locType, zerosOutside |-> zerosOutside,
             fmt |-> fmt]
  /\ out' = getInterpolationMat(Mesh, pts, locType, zerosOutside, fmt)
  /\ UNCHANGED <<cls, shape, x0, h, nodes, cache, calls>>

\* Each behaviour makes one call on the mesh drawn.
IsInsideCalls ==
  /\ op = "init"
  /\ \E pts \in PointArrays(Len(Get(h))), locType \in GridKeys :
       CallIsInside(pts, locType)

InterpolationCalls ==
  /\ op = "init"
  /\ \E pts \in PointArrays(Len(Get(h))), locType \in InterpLocTypes,
        zerosOutside \in BOOLEAN, fmt \in {"coo", "csr"} :
       CallGetInterpolationMat(pts, locType, zerosOutside, fmt)

NextPoints == IsInsideCalls \/ InterpolationCalls

SpecPoints == InitPoints /\ [][NextPoints]_vars

\* C16 as stated: isInside returns one boolean per point, true exactly when
\* every coordinate i of the point lies in [min(t_i) - tol_i, max(t_i) + tol_i]
\* with t_i the axis-i vector of getTensor(locType) and tol_i = 1e-10 times
\* the least spacing of t_i.
C16_AsStated ==
  op = "isInside" =>
    LET t == getTensor(Mesh, arg.locType)
        spacings(i) == {t[i][k + 1] - t[i][k] : k \in 1..(Len(t[i]) - 1)}
        tol(i) == CHOOSE sp \in spacings(i) : \A o \in spacings(i) : sp <= o
        lo(i) == CHOOSE v \in {t[i][k] : k \in 1..Len(t[i])} :
                   \A k \in 1..Len(t[i]) : v <= t[i][k]
        hi(i) == CHOOSE v \in {t[i][k] : k \in 1..Len(t[i])} :
                   \A k \in 1..Len(t[i]) : v >= t[i][k]
    IN /\ out.ok
       /\ Len(out.val) = Len(arg.pts)
       /\ \A p \in 1..Len(arg.pts) :
            out.val[p] <=>
              \A i \in 1..Len(t) :
                /\ Leq(<<lo(i), -tol(i)>>, arg.pts[p][i])
                /\ Leq(arg.pts[p][i], <<hi(i), tol(i)>>)

\* a point at the tolerance below the first node is inside, the next one,
\* beyond the tolerance above the last node, is not
C16_Witness ==
  /\ op = "isInside" /\ out.ok
  /\ h = Some(<<<<2, 6>>>>)
  /\ arg.locType = "N"
  /\ arg.pts = <<(<<(<<0, -2>>)>>), (<<(<<8, 3>>)>>)>>
  /\ out.val = <<TRUE, FALSE>>

\* the locations of a mesh of d axes a matrix can interpolate from
Interpolable(d) ==
  {"CC", "N", "CCVx", "CCVy", "CCVz", "Fx", "Ex"}
  \cup (IF d >= 2 THEN {"Fy", "Ey"} ELSE {})
  \cup (IF d >= 3 THEN {"Fz", "Ez"} ELSE {})

\* C17 as stated: with zerosOutside false the call fails whenever a point
\* is outside the mesh; with zerosOutside true it succeeds for any points,
\* the matrix has one row per point, the row of every point outside is
\* entirely zero and the row of every point inside is the row the strict
\* mode produces for that point.
C17_AsStated ==
  (op = "getInterpolationMat"
     /\ arg.locType \in Interpolable(Len(Get(shape)))) =>
    LET n == Len(arg.pts)
        inside == isInside(Mesh, arg.pts, "N").val
        strict(p) == getInterpolationMat(Mesh, <<arg.pts[p]>>, arg.locType,
                                         FALSE, arg.fmt)
    IN IF ~arg.zerosOutside
       THEN (\E p \in 1..n : ~inside[p]) => ~out.ok
       ELSE /\ out.ok
            /\ out.val.shape[1] = n
            /\ \A p \in 1..n :
                 IF inside[p]
                 THEN strict(p).ok /\ out.val.rows[p] = strict(p).val.rows[1]
                 ELSE out.val.rows[p] = {}

\* the nodal interpolation of a point outside and a point inside a mesh of
\* one cell: a zero row, and the weights of the two nodes
C17_Witness ==
  /\ op = "getInterpolationMat" /\ out.ok
  /\ h = Some(<<<<2>>>>)
  /\ arg.locType = "N" /\ arg.zerosOutside
  /\ arg.pts = <<(<<(<<2, 3>>)>>), (<<(<<1, -4>>)>>)>>
  /\ out.val.shape = <<2, 2>>
  /\ out.val.rows[1] = {}
  /\ out.val.rows[2] = {Entry(1, <<Weight(<<1, 4>>, 2)>>),
                        Entry(2, <<Weight(<<1, -4>>, 2)>>)}

(* ------------------- tensor mesh: fast inner products ------------------ *)
\* Property values, volumes and matrix entries are exact fractions <<n, d>>
\* in lowest terms, d > 0.
RECURSIVE GCD(_, _)
GCD(a, b) == IF b = 0 THEN a ELSE GCD(b, a % b)

Frac(n, d) == LET g == GCD(Abs(n), d) IN <<n \div g, d \div g>>

QAdd(a, b) == Frac(a[1] * b[2] + b[1] * a[2], a[2] * b[2])
QMul(a, b) == Frac(a[1] * b[1], a[2] * b[2])
QInv(a) == IF a[1] > 0 THEN <<a[2], a[1]>> ELSE <<-a[2], -a[1]>>

RECURSIVE QSum(_)
QSum(q) == IF q = <<>> THEN <<0, 1>> ELSE QAdd(Head(q), QSum(Tail(q)))

RECURSIVE Pow2(_)
Pow2(k) == IF k = 0 THEN 1 ELSE 2 * Pow2(k - 1)

\* _meshType of the classes: 'CYL' is the axisymmetric cylindrical mesh,
\* whose shape is (nr, 1, nz)
_meshType(c) == IF c = "CylMesh" THEN "CYL" ELSE "BASETENSOR"

\* the axes along which the mesh has faces ('F') or edges ('E'): every axis,
\* or on the axisymmetric mesh x and z for faces and y for edges
Components(t, s, projType) ==
  IF t = "CYL" THEN (IF projType = "F" THEN <<1, 3>> ELSE <<2>>)
  ELSE [a \in 1..dim(s) |-> a]

\* along axis b, the faces of axis a lie on nodes when b = a and the edges
\* of axis a when b # a
OnNodes(projType, a, b) == IF projType = "F" THEN b = a ELSE b # a

\* the numbers of faces or edges of axis a along each axis; the radial axis
\* of the axisymmetric mesh has no node on the axis of symmetry
Extent(t, s, projType, a) ==
  [b \in 1..dim(s) |->
     IF OnNodes(projType, a, b) /\ ~(t = "CYL" /\ b = 1) THEN s[b] + 1 ELSE s[b]]

\* mesh.vnF, mesh.vnE: of BaseMesh, or of the axisymmetric mesh
\* ([nFx, 0, nFz] and [0, nEy, 0])
vn(t, s, projType) ==
  IF t = "CYL"
  THEN [a \in 1..3 |->
          IF \E j \in 1..Len(Components(t, s, projType)) :
               Components(t, s, projType)[j] = a
          THEN Prod(Extent(t, s, projType, a)) ELSE 0]
  ELSE IF projType = "F" THEN vnF(s) ELSE vnE(s)

\* the faces or edges of axis a that bound the cell of multi-index idx
\* (from 0), as multi-indices into Extent
Touched(t, s, projType, a, idx) ==
  {loc \in [1..dim(s) -> 0..(MaxOf(s) + 1)] :
     \A b \in 1..dim(s) :
       IF ~OnNodes(projType, a, b) THEN loc[b] = idx[b]
       ELSE IF t = "CYL" /\ b = 1 THEN loc[b] \in {idx[b] - 1, idx[b]}
       ELSE loc[b] \in {idx[b], idx[b] + 1}}

\* the number of axes along which the faces or edges of axis a lie on nodes
NodeAxes(s, projType, a) ==
  Cardinality({b \in 1..dim(s) : OnNodes(projType, a, b)})

\* the row of cell k (from 1, Fortran order) in the matrix that averages the
\* faces or edges of axis a to the cell centres: weight 1/2 per node axis;
\* the columns are shifted by off and the weights divided by parts
AveRow(t, s, projType, a, k, off, parts) ==
  {Entry(off + PosF(Extent(t, s, projType, a), loc) + 1,
         <<1, parts * Pow2(NodeAxes(s, projType, a))>>) :
     loc \in Touched(t, s, projType, a, MultiF(s, k - 1))}

\* the first column, less one, of the faces or edges of the j-th component
ComponentOffset(t, s, projType, j) ==
  Sum([i \in 1..(j - 1) |->
         Prod(Extent(t, s, projType, Components(t, s, projType)[i]))])

\* mesh.aveF2CC, mesh.aveE2CC: the average of all faces or edges of a cell
ave2CC(t, s, projType) ==
  LET comps == Components(t, s, projType)
      row(k) == UNION {AveRow(t, s, projType, comps[j], k,
                              ComponentOffset(t, s, projType, j), Len(comps)) :
                         j \in 1..Len(comps)}
  IN Sparse(<<nC(s), ComponentOffset(t, s, projType, Len(comps) + 1)>>, "csr",
            Listed([k \in 1..nC(s) |-> row(k)], nC(s)))

\* mesh.aveF2CCV, mesh.aveE2CCV: one block of rows per component, each the
\* average of the faces or edges of that component
ave2CCV(t, s, projType) ==
  LET comps == Components(t, s, projType)
      row(q) == LET j == ((q - 1) \div nC(s)) + 1
                    k == ((q - 1) % nC(s)) + 1
                IN AveRow(t, s, projType, comps[j], k,
                          ComponentOffset(t, s, projType, j), 1)
  IN Sparse(<<Len(comps) * nC(s), ComponentOffset(t, s, projType, Len(comps) + 1)>>,
            "csr", Listed([q \in 1..(Len(comps) * nC(s)) |-> row(q)], Len(comps) * nC(s)))

\* mesh.vol, one volume per cell in Fortran order: the product of the
\* widths, or on the axisymmetric mesh (outer radius squared less inner
\* radius squared) times height, counted in units of pi
vol(t, m) ==
  LET cell(k) ==
        LET idx == MultiF(m.shape, k - 1)
            w(b) == m.h[b][idx[b] + 1]
            ri == Sum(Take(m.h[1], idx[1]))
        IN IF t = "CYL" THEN <<((ri + w(1)) * (ri + w(1)) - ri * ri) * w(3), 1>>
           ELSE <<Prod([b \in 1..dim(m.shape) |-> w(b)]), 1>>
  IN Listed([k \in 1..nC(m.shape) |-> cell(k)], nC(m.shape))

\* utils.sdiag(v): the matrix with v on its diagonal
sdiag(v) == Sparse(<<Len(v), Len(v)>>, "csr",
                   Listed([j \in 1..Len(v) |-> {Entry(j, v[j])}], Len(v)))

\* M.diagonal()
Diagonal(M) ==
  Listed([j \in 1..M.shape[1] |->
            IF \E e \in M.rows[j] : e.col = j
            THEN (CHOOSE e \in M.rows[j] : e.col = j).val ELSE <<0, 1>>],
         M.shape[1])

\* mutant: the matrix is handed back as it is
sdInv_asIs(M) == sdiag(Diagonal(M))

\* utils.sdInv(M): sdiag(1 / M.diagonal())
sdInv(M) == sdiag(Listed([j \in 1..M.shape[1] |-> QInv(Diagonal(M)[j])], M.shape[1]))

\* c * M
Scaled(c, M) ==
  Sparse(M.shape, M.format,
         Listed([j \in 1..M.shape[1] |->
                   {Entry(e.col, QMul(<<c, 1>>, e.val)) : e \in M.rows[j]}],
                M.shape[1]))

\* Av.T * x
TransposeTimes(Av, x) ==
  LET term(i, j) == IF \E e \in Av.rows[i] : e.col = j
                    THEN QMul((CHOOSE e \in Av.rows[i] : e.col = j).val, x[i])
                    ELSE <<0, 1>>
  IN Listed([j \in 1..Av.shape[2] |->
               QSum(Listed([i \in 1..Av.shape[1] |-> term(i, j)], Av.shape[1]))],
            Av.shape[2])

\* A property is None, a scalar [scalar |-> q] or an ndarray of fractions.
\* utils.isScalar(prop)
isScalar(prop) == "scalar" \in DOMAIN prop

\* np.ones(n)
Ones(n) == Arr1(Rep(n, <<1, 1>>))

\* 1./prop
Reciprocal(prop) ==
  IF isScalar(prop) THEN [scalar |-> QInv(prop.scalar)]
  ELSE Arr(prop.shape, Listed([k \in 1..Len(prop.data) |-> QInv(prop.data[k])],
                              Len(prop.data)))

\* prop*np.ones(self.nC)
Expanded(prop, n) == Arr1(Rep(n, prop.scalar))

\* mutant: the number of axes on every mesh
n_elements_dim(t, s, projType) == dim(s)

\* the number of elements averaged: np.sum(vn.nonzero()), the sum of the
\* positions (from 0) of the non-zero entries of vnF or vnE, on the
\* axisymmetric mesh, and dim on the others
n_elements(t, s, projType) ==
  IF t = "CYL"
  THEN Sum([a \in 1..Len(vn(t, s, projType)) |->
              IF vn(t, s, projType)[a] # 0 THEN a - 1 ELSE 0])
  ELSE dim(s)

\* prop[:, cols] of a matrix, columns counted from 0
Columns(A, cols) ==
  Arr(<<A.shape[1], Len(cols)>>,
      Listed([q \in 1..(A.shape[1] * Len(cols)) |->
                At(A, <<(q - 1) \div Len(cols), cols[((q - 1) % Len(cols)) + 1]>>)],
             A.shape[1] * Len(cols)))

\* sp.kron(sp.identity(n), utils.sdiag(vol)) * x
KronVolTimes(n, v, x) ==
  Listed([q \in 1..(n * Len(v)) |-> QMul(v[((q - 1) % Len(v)) + 1], x[q])], n * Len(v))

\* mesh._fastInnerProduct(projType, prop, invProp, invMat) on a mesh of
\* class c with the fields m; the product of V with a vector of another
\* length raises a ValueError
_fastInnerProduct(c, m, projType, prop_in, invProp, invMat) ==
  LET t == _meshType(c)
      s == m.shape
      prop1 == IF prop_in = None THEN Ones(nC(s)) ELSE prop_in
      prop2 == IF invProp THEN Reciprocal(prop1) ELSE prop1
      prop == IF isScalar(prop2) THEN Expanded(prop2, nC(s)) ELSE prop2
      n == n_elements(t, s, projType)
      Vprop == Listed([k \in 1..nC(s) |-> QMul(vol(t, m)[k], mkvc(prop).data[k])],
                      nC(s))
      isotropic == Scaled(n, sdiag(TransposeTimes(ave2CC(t, s, projType), Vprop)))
      selected == IF t = "CYL"
                  THEN IF projType = "E" THEN Column(prop, 1)
                       ELSE Columns(prop, <<0, 2>>)
                  ELSE prop
      anisotropic == sdiag(TransposeTimes(ave2CCV(t, s, projType),
                                          KronVolTimes(n, vol(t, m), mkvc(selected).data)))
      M == IF Size(prop) = nC(s) THEN Ok(Some(isotropic))
           ELSE IF Size(prop) = nC(s) * dim(s)
           THEN IF t = "CYL" /\ NDim(prop) < 2 THEN Raise("IndexError")
                ELSE IF n * nC(s) # Size(selected) THEN Raise("ValueError")
                ELSE Ok(Some(anisotropic))
           ELSE Ok(None)
  IN IF projType \notin {"F", "E"} THEN Raise("AssertionError")
     ELSE IF ~M.ok \/ M.val = None THEN M
     ELSE IF invMat THEN Ok(Some(sdInv(Get(M.val))))
     ELSE M

\* the shapes of the meshes products are formed on
InnerShapes == UNION {[1..d -> 1..MaxN] : d \in 1..2} \cup [1..3 -> {1, 2}]

\* the widths of the cells of every axis: 1, 2, ... (in halves)
InnerWidths(s) == [b \in 1..Len(s) |-> [k \in 1..s[b] |-> 2 * k]]

PropKinds == {"none", "one", "two", "ones", "twos", "varied", "column",
              "perAxis", "perAxisFlat", "tensor", "long"}

\* the property handed over, for a mesh of n cells and d axes
PropOf(kind, n, d) ==
  LET varied == [k \in 1..n |-> <<1 + (k % 2), 1>>]
      perAxis(k, a) == <<a + (k % 2), 1>>
  IN CASE kind = "none" -> None
       [] kind = "one" -> [scalar |-> <<1, 1>>]
       [] kind = "two" -> [scalar |-> <<2, 1>>]
       [] kind = "ones" -> Ones(n)
       [] kind = "twos" -> Arr1(Rep(n, <<2, 1>>))
       [] kind = "varied" -> Arr1(varied)
       [] kind = "column" -> Arr(<<n, 1>>, varied)
       [] kind = "perAxis" ->
            Arr(<<n, d>>, [q \in 1..(n * d) |->
                             perAxis(((q - 1) \div d) + 1, ((q - 1) % d) + 1)])
       [] kind = "perAxisFlat" ->
            Arr1([q \in 1..(n * d) |->
                    perAxis(((q - 1) % n) + 1, ((q - 1) \div n) + 1)])
       [] kind = "tensor" -> Arr(<<n, 6>>, Rep(n * 6, <<1, 1>>))
       [] kind = "long" -> Arr1(Rep(n + 1, <<1, 1>>))

InitInner ==
  /\ \/ /\ cls = "TensorMesh"
        /\ \E s \in InnerShapes : shape = Some(s)
     \/ /\ cls = "CylMesh"
        /\ \E nr \in 1..MaxN, nz \in 1..MaxN : shape = Some(<<nr, 1, nz>>)
  /\ h = Some(InnerWidths(Get(shape)))
  /\ x0 = Some(Rep(Len(Get(shape)), 0))
  /\ cache = <<>>
  /\ nodes = None
  /\ calls = <<>>
  /\ op = "init"
  /\ arg = None
  /\ out = Ok(None)

\* mesh._fastInnerProduct(projType, prop, invProp, invMat)
Call_fastInnerProduct(projType, kind, invProp, invMat) ==
  /\ op = "init"
  /\ op' = "_fastInnerProduct"
  /\ arg' = [projType |-> projType, kind |-> kind,
             prop |-> PropOf(kind, nC(Get(shape)), dim(Get(shape))),
             invProp |-> invProp, invMat |-> invMat]
  /\ out' = _fastInnerProduct(cls, Mesh, projType,
                              PropOf(kind, nC(Get(shape)), dim(Get(shape))),
                              invProp, invMat)
  /\ UNCHANGED <<cls, shape, x0, h, nodes, cache, calls>>

InnerProductCalls ==
  /\ op = "init"
  /\ \E projType \in {"F", "E", "N"}, kind \in PropKinds,
        invProp \in BOOLEAN, invMat \in BOOLEAN :
       Call_fastInnerProduct(projType, kind, invProp, invMat)

NextInner == InnerProductCalls

SpecInner == InitInner /\ [][NextInner]_vars

\* the number of faces or edges of the mesh held by the fields
LocationCount(projType) == Sum(vn(_meshType(cls), Get(shape), projType))

\* the number of entries of the property handed over, after the expansion
\* of an absent or scalar property to one value per cell
EntriesOf(prop) ==
  IF prop = None THEN nC(Get(shape))
  ELSE IF "scalar" \in DOMAIN prop THEN nC(Get(shape))
  ELSE Prod(prop.shape)

\* every stored entry lies on the diagonal
IsDiagonal(M) ==
  \A j \in 1..M.shape[1] : \A e \in M.rows[j] : e.col = j

\* the property with every value replaced by its reciprocal
Inverted(prop) ==
  IF "scalar" \in DOMAIN prop THEN [scalar |-> <<prop.scalar[2], prop.scalar[1]>>]
  ELSE [shape |-> prop.shape,
        data |-> [k \in 1..Len(prop.data) |-> <<prop.data[k][2], prop.data[k][1]>>]]

\* C18 as stated: an absent prop, the scalar 1 and ones(nC) give the same
\* matrix; a scalar c gives the matrix of c*ones(nC); invProp reciprocates
\* the property; the result is a diagonal matrix when prop has nC or nC*dim
\* entries, and None exactly when it has neither.
C18_AsStated ==
  (op = "_fastInnerProduct" /\ arg.projType \in {"F", "E"}) =>
    LET n == nC(Get(shape))
        d == dim(Get(shape))
        size == EntriesOf(arg.prop)
        call(prop, invProp) ==
          _fastInnerProduct(cls, Mesh, arg.projType, prop, invProp, arg.invMat)
    IN /\ arg.kind \in {"none", "one"} =>
            out = call([shape |-> <<n>>, data |-> [k \in 1..n |-> <<1, 1>>]], arg.invProp)
       /\ arg.kind = "two" =>
            out = call([shape |-> <<n>>, data |-> [k \in 1..n |-> <<2, 1>>]], arg.invProp)
       /\ (arg.invProp /\ arg.prop # None) => out = call(Inverted(arg.prop), FALSE)
       /\ (size = n \/ size = n * d) =>
            /\ out.ok /\ out.val # None
            /\ Get(out.val).shape = <<LocationCount(arg.projType), LocationCount(arg.projType)>>
            /\ IsDiagonal(Get(out.val))
       /\ (out.ok /\ out.val = None) <=> ~(size = n \/ size = n * d)

\* the scalar 2 with invProp on a mesh of one cell and two faces: the
\* diagonal holds the volume 2 times 1/2, halved by the average
C18_Witness ==
  /\ op = "_fastInnerProduct" /\ out.ok
  /\ cls = "TensorMesh" /\ shape = Some(<<1>>)
  /\ arg.projType = "F" /\ arg.kind = "two" /\ arg.invProp /\ ~arg.invMat
  /\ Get(out.val).rows = <<{Entry(1, <<1, 2>>)}, {Entry(2, <<1, 2>>)}>>

\* the scale of the claim: dim, or 1 for edges and 2 for faces on the
\* axisymmetric mesh
ScaleOf(projType) ==
  IF cls = "CylMesh" THEN (IF projType = "E" THEN 1 ELSE 2) ELSE dim(Get(shape))

\* the value of the property in cell i (from 1) along the j-th component,
\* after the reciprocal asked for by invProp
PropAt(i, j) ==
  LET n == nC(Get(shape))
      d == dim(Get(shape))
      a == Components(_meshType(cls), Get(shape), arg.projType)[j]
      raw == IF arg.prop = None THEN <<1, 1>>
             ELSE IF "scalar" \in DOMAIN arg.prop THEN arg.prop.scalar
             ELSE IF EntriesOf(arg.prop) = n THEN arg.prop.data[i]
             ELSE IF Len(arg.prop.shape) = 2 THEN arg.prop.data[(i - 1) * d + a]
             ELSE arg.prop.data[(a - 1) * n + i]
  IN IF arg.invProp THEN <<raw[2], raw[1]>> ELSE raw

\* entry (i, j) of a sparse matrix
EntryAt(A, i, j) ==
  IF \E e \in A.rows[i] : e.col = j
  THEN (CHOOSE e \in A.rows[i] : e.col = j).val ELSE <<0, 1>>

\* the sum of the fractions f(i), i in 1..n
RECURSIVE SumTo(_, _)
SumTo(f, n) == IF n = 0 THEN <<0, 1>> ELSE QAdd(f[n], SumTo(f, n - 1))

\* the averaging operator of the convention in use and the weight
\* cellVolume * property of each of its rows
AverageInUse ==
  IF EntriesOf(arg.prop) = nC(Get(shape))
  THEN ave2CC(_meshType(cls), Get(shape), arg.projType)
  ELSE ave2CCV(_meshType(cls), Get(shape), arg.projType)

RowWeight(q) ==
  LET n == nC(Get(shape))
      i == ((q - 1) % n) + 1
      j == ((q - 1) \div n) + 1
  IN QMul(vol(_meshType(cls), Mesh)[i], PropAt(i, j))

\* the calls C19 is about: a matrix is returned, not inverted
ReturnsMatrix ==
  /\ op = "_fastInnerProduct" /\ arg.projType \in {"F", "E"}
  /\ out.ok /\ out.val # None /\ ~arg.invMat

\* C19 as stated: the matrix is scale * Average^T * diag(cellVolume *
\* property) * Average for both conventions.
C19_AsStated ==
  ReturnsMatrix =>
    LET Av == AverageInUse
        stated(j, k) ==
          QMul(<<ScaleOf(arg.projType), 1>>,
               SumTo([q \in 1..Av.shape[1] |->
                        QMul(QMul(EntryAt(Av, q, j), RowWeight(q)), EntryAt(Av, q, k))],
                     Av.shape[1]))
    IN \A j, k \in 1..Av.shape[2] : EntryAt(Get(out.val), j, k) = stated(j, k)

\* C19, corrected: the matrix is diagonal; with one value per cell its
\* diagonal is scale * Average^T * (cellVolume * property), and with dim
\* values per cell it is AverageV^T * (cellVolume * property) over the rows
\* of the per-component average, without the scale; scale is dim, or 1 for
\* edges and 2 for faces on the axisymmetric mesh.
C19_DiagonalOfAveragedWeights ==
  ReturnsMatrix =>
    LET Av == AverageInUse
        factor == IF EntriesOf(arg.prop) = nC(Get(shape))
                  THEN <<ScaleOf(arg.projType), 1>> ELSE <<1, 1>>
        diagonal(j) ==
          QMul(factor,
               SumTo([q \in 1..Av.shape[1] |-> QMul(EntryAt(Av, q, j), RowWeight(q))],
                     Av.shape[1]))
    IN /\ Get(out.val).shape = <<Av.shape[2], Av.shape[2]>>
       /\ \A j \in 1..Av.shape[2] : Get(out.val).rows[j] = {Entry(j, diagonal(j))}

\* the edges of an axisymmetric mesh of two cells, no property: scale 1
C19_Witness ==
  /\ ReturnsMatrix
  /\ cls = "CylMesh" /\ shape = Some(<<2, 1, 1>>)
  /\ arg.projType = "E" /\ arg.kind = "none" /\ ~arg.invProp
  /\ Get(out.val).rows = <<{Entry(1, <<18, 1>>)}, {Entry(2, <<16, 1>>)},
                           {Entry(3, <<18, 1>>)}, {Entry(4, <<16, 1>>)}>>

\* the sum of the fractions f[x], x in the finite set S
RECURSIVE SumOver(_, _)
SumOver(S, f) ==
  IF S = {} THEN <<0, 1>>
  ELSE LET x == CHOOSE x \in S : TRUE IN QAdd(f[x], SumOver(S \ {x}, f))

\* C20: the matrix returned with invMat=True times the matrix returned with
\* invMat=False (same projType, prop, invProp) is the identity: each
\* diagonal entry of the first is the reciprocal of that of the second.
C20_InverseTimesMatrix ==
  (op = "_fastInnerProduct" /\ arg.projType \in {"F", "E"} /\ arg.invMat
     /\ out.ok /\ out.val # None) =>
    LET plain == _fastInnerProduct(cls, Mesh, arg.projType, arg.prop, arg.invProp, FALSE)
        A == Get(out.val)
        B == Get(plain.val)
        product(j, k) ==
          SumOver({e.col : e \in A.rows[j]},
                  [q \in 1..A.shape[2] |-> QMul(EntryAt(A, j, q), EntryAt(B, q, k))])
    IN /\ plain.ok /\ plain.val # None
       /\ A.shape = B.shape
       /\ \A j, k \in 1..A.shape[1] :
            product(j, k) = IF j = k THEN <<1, 1>> ELSE <<0, 1>>
       /\ \A j \in 1..A.shape[1] :
            QMul(EntryAt(A, j, j), EntryAt(B, j, j)) = <<1, 1>>

\* the inverse of the face matrix of the mesh of two cells by one cell
C20_Witness ==
  /\ op = "_fastInnerProduct" /\ out.ok /\ arg.invMat /\ ~arg.invProp
  /\ cls = "TensorMesh" /\ shape = Some(<<2, 1>>)
  /\ arg.projType = "F" /\ arg.kind = "ones"
  /\ Get(out.val).rows = <<{Entry(1, <<1, 2>>)}, {Entry(2, <<1, 6>>)},
                           {Entry(3, <<1, 4>>)}, {Entry(4, <<1, 2>>)},
                           {Entry(5, <<1, 4>>)}, {Entry(6, <<1, 2>>)},
                           {Entry(7, <<1, 4>>)}>>

(* ------------- tensor mesh: derivatives of the inner products ---------- *)
\* utils.TensorType(mesh, prop): -1 for an absent property, 0 for a scalar,
\* 1 for one value per cell, 2 for dim values per cell, 3 for a full tensor
\* per cell; any other size raises an Exception
TensorType(s, prop) ==
  IF prop = None THEN Ok(-1)
  ELSE IF isScalar(prop) THEN Ok(0)
  ELSE IF Size(prop) = nC(s) THEN Ok(1)
  ELSE IF dim(s) = 2 /\ Size(prop) = nC(s) * 2 THEN Ok(2)
  ELSE IF dim(s) = 3 /\ Size(prop) = nC(s) * 3 THEN Ok(2)
  ELSE IF dim(s) = 2 /\ Size(prop) = nC(s) * 3 THEN Ok(3)
  ELSE IF dim(s) = 3 /\ Size(prop) = nC(s) * 6 THEN Ok(3)
  ELSE Raise("Exception")

\* A.T
Transposed(A) ==
  Sparse(<<A.shape[2], A.shape[1]>>, "csr",
         Listed([j \in 1..A.shape[2] |->
                   {Entry(i, EntryAt(A, i, j)) :
                      i \in {i \in 1..A.shape[1] : \E e \in A.rows[i] : e.col = j}}],
                A.shape[2]))

\* A * utils.sdiag(d); the product of matrices whose inner sizes differ
\* raises a ValueError
TimesDiag(A, d) ==
  IF A.shape[2] # Len(d) THEN Raise("ValueError")
  ELSE Ok(Sparse(A.shape, "csr",
                 Listed([j \in 1..A.shape[1] |->
                           {Entry(e.col, QMul(e.val, d[e.col])) : e \in A.rows[j]}],
                        A.shape[1])))

\* utils.sdiag(d) * A
DiagTimes(d, A) ==
  IF A.shape[1] # Len(d) THEN Raise("ValueError")
  ELSE Ok(Sparse(A.shape, "csr",
                 Listed([j \in 1..A.shape[1] |->
                           {Entry(e.col, QMul(d[j], e.val)) : e \in A.rows[j]}],
                        A.shape[1])))

\* A * ones, ones the column of n ones (an n by 1 matrix)
TimesOnes(A, n) ==
  IF A.shape[2] # n THEN Raise("ValueError")
  ELSE Ok(Sparse(<<A.shape[1], 1>>, "csr",
                 Listed([j \in 1..A.shape[1] |->
                           IF A.rows[j] = {} THEN {}
                           ELSE {Entry(1, SumOver({e.col : e \in A.rows[j]},
                                                  [q \in 1..A.shape[2] |-> EntryAt(A, j, q)]))}],
                        A.shape[1])))

\* A * P for the matrix P that holds an identity block per entry of blocks:
\* the k-th block of n columns of A goes to block blocks[k] of the result,
\* which has total blocks
TimesP(A, blocks, total, n) ==
  IF A.shape[2] # Len(blocks) * n THEN Raise("ValueError")
  ELSE Ok(Sparse(<<A.shape[1], total * n>>, "csr",
                 Listed([j \in 1..A.shape[1] |->
                           {Entry((blocks[((e.col - 1) \div n) + 1] - 1) * n
                                    + ((e.col - 1) % n) + 1, e.val) : e \in A.rows[j]}],
                        A.shape[1])))

\* the vector x with every entry squared, and sign times 1./x**2
Squared(x) == Listed([k \in 1..Len(x) |-> QMul(x[k], x[k])], Len(x))
InverseSquared(sign, x) ==
  Listed([k \in 1..Len(x) |-> QMul(<<sign, 1>>, QInv(QMul(x[k], x[k])))], Len(x))
Negated(x) == Listed([k \in 1..Len(x) |-> QMul(<<-1, 1>>, x[k])], Len(x))

\* utils.sdiag(sign * 1./prop**2) as a diagonal: of a scalar that is no
\* array, utils.mkvc refuses it
DiagOfInverseSquare(sign, prop) ==
  IF isScalar(prop) THEN Raise("AssertionError")
  ELSE Ok(InverseSquared(sign, mkvc(prop).data))

\* the calls of a chain of products, the first failure kept
Then(res, F(_)) == IF res.ok THEN F(res.val) ELSE res

\* mesh._fastInnerProductDeriv(projType, prop, invProp, invMat)(v) on a mesh
\* of class c with the fields m: the matrix dMdprop when v is absent, and
\* utils.sdiag(v) * dMdprop otherwise; None when no matrix is built
_fastInnerProductDeriv(c, m, projType, prop, invProp, invMat, v) ==
  LET t == _meshType(c)
      s == m.shape
      n == n_elements(t, s, projType)
      scaled(res) == Then(res, LAMBDA A : Ok(Scaled(n, A)))
      byOnes(res) == Then(res, LAMBDA A : TimesOnes(A, nC(s)))
      byProp(res, sign) ==
        Then(res, LAMBDA A : Then(DiagOfInverseSquare(sign, prop),
                                  LAMBDA d : TimesDiag(A, d)))
      AvT == Transposed(ave2CCV(t, s, projType))
      AvTP == IF t = "CYL"
              THEN TimesP(AvT, IF projType = "E" THEN <<2>> ELSE <<1, 3>>, 3, nC(s))
              ELSE TimesP(AvT, [a \in 1..dim(s) |-> a], dim(s), nC(s))
      returned(dMdprop) ==
        IF ~dMdprop.ok THEN dMdprop
        ELSE IF v = None THEN Ok(Some(dMdprop.val))
        ELSE Then(DiagTimes(Get(v), dMdprop.val), LAMBDA A : Ok(Some(A)))
      built(tensorType, MI, AvTV, AvTPV) ==
        LET MI2(sign) == LET d == Squared(Diagonal(Get(MI.val)))
                         IN IF sign < 0 THEN Negated(d) ELSE d
            byMI(res, sign) == Then(res, LAMBDA A : DiagTimes(MI2(sign), A))
            constant ==
              IF ~invMat /\ ~invProp THEN scaled(byOnes(AvTV))
              ELSE IF invMat /\ invProp THEN scaled(byProp(byOnes(byMI(AvTV, 1)), 1))
              ELSE IF invProp THEN scaled(byProp(AvTV, -1))
              ELSE scaled(byMI(AvTV, -1))
            variable ==
              IF ~invMat /\ ~invProp THEN scaled(AvTV)
              ELSE IF invMat /\ invProp THEN scaled(byProp(byMI(AvTV, 1), 1))
              ELSE IF invProp THEN scaled(byProp(AvTV, -1))
              ELSE scaled(byMI(AvTV, -1))
            anisotropic ==
              IF ~invMat /\ ~invProp THEN AvTPV
              ELSE IF invMat /\ invProp THEN byProp(byMI(AvTPV, 1), 1)
              ELSE IF invProp THEN byProp(AvTPV, -1)
              ELSE byMI(AvTPV, -1)
        IN IF projType \notin {"F", "E"} THEN Raise("AssertionError")
           ELSE IF ~tensorType.ok THEN tensorType
           ELSE IF ~MI.ok THEN MI
           ELSE IF tensorType.val \notin {0, 1, 2} THEN Ok(None)
           ELSE returned(IF tensorType.val = 0 THEN constant
                         ELSE IF tensorType.val = 1 THEN variable
                         ELSE anisotropic)
  IN built(TensorType(s, prop),
           IF invMat \/ invProp
           THEN _fastInnerProduct(c, m, projType, prop, invProp, invMat)
           ELSE Ok(None),
           TimesDiag(Transposed(ave2CC(t, s, projType)), vol(t, m)),
           Then(AvTP, LAMBDA A :
                  TimesDiag(A, Listed([q \in 1..(dim(s) * nC(s)) |->
                                         vol(t, m)[((q - 1) % nC(s)) + 1]],
                                      dim(s) * nC(s)))))

\* the vector handed to the operator: absent, or 1, 2, ... per face or edge
DirectionOf(given, n) == IF given THEN Some([k \in 1..n |-> <<k, 1>>]) ELSE None

\* f = mesh._fastInnerProductDeriv(projType, prop, invProp, invMat); f(v)
Call_fastInnerProductDeriv(projType, kind, invProp, invMat, given) ==
  /\ op = "init"
  /\ op' = "_fastInnerProductDeriv"
  /\ arg' = [projType |-> projType, kind |-> kind,
             prop |-> PropOf(kind, nC(Get(shape)), dim(Get(shape))),
             invProp |-> invProp, invMat |-> invMat,
             v |-> DirectionOf(given, Sum(vn(_meshType(cls), Get(shape), projType)))]
  /\ out' = _fastInnerProductDeriv(
              cls, Mesh, projType, PropOf(kind, nC(Get(shape)), dim(Get(shape))),
              invProp, invMat,
              DirectionOf(given, Sum(vn(_meshType(cls), Get(shape), projType))))
  /\ UNCHANGED <<cls, shape, x0, h, nodes, cache, calls>>

DerivCalls ==
  /\ op = "init"
  /\ \E projType \in {"F", "E", "N"}, kind \in PropKinds,
        invProp \in BOOLEAN, invMat \in BOOLEAN, given \in BOOLEAN :
       Call_fastInnerProductDeriv(projType, kind, invProp, invMat, given)

NextDeriv == DerivCalls

SpecDeriv == InitInner /\ [][NextDeriv]_vars

\* the number of parameters of the property convention of the call: 1 for
\* a scalar, nC for one value per cell, nC*dim for dim values per cell, and
\* 0 when the property follows none of them
Parameters(prop) ==
  IF prop = None THEN 0
  ELSE IF "scalar" \in DOMAIN prop THEN 1
  ELSE IF Prod(prop.shape) = nC(Get(shape)) THEN nC(Get(shape))
  ELSE IF Prod(prop.shape) = nC(Get(shape)) * dim(Get(shape))
  THEN nC(Get(shape)) * dim(Get(shape))
  ELSE 0

_easy_validate(args, validate(_)) ==
  IF Len(args) # 2 THEN Raise("TypeError") ELSE validate(args[2])

\* the validator of the field nodes; v is a list of arrays
_check_nodes(v, values) ==
  IF Len(v) \notin {2, 3} THEN Raise("ValueError")
  ELSE IF \E i \in 1..Len(v) : Len(v[i].shape) # Len(v) THEN Raise("ValueError")
  ELSE IF v[1].shape # v[2].shape THEN Raise("ValueError")
  ELSE IF Len(v) = 3 /\ v[1].shape # v[3].shape THEN Raise("ValueError")
  ELSE IF HasKey(values, "shape")
          /\ \E i \in 1..Len(v) : values["shape"] # Some(v[i].shape)
       THEN Raise("ValueError")
  ELSE Ok(v)

\* CurvilinearMesh(nodes, **kwargs): nodes is validated by a call of
\* _easy_validate with the one argument nodes; the shape handed on is that
\* of the first array, the origin is node[0, 0, 0] of every array, which
\* needs three axes, and BaseMesh.__init__ receives shape and x0
CurvilinearMesh__init__(nodes_in, kwargs) ==
  LET r0 == _easy_validate(<<nodes_in>>, LAMBDA v : _check_nodes(v, <<>>))
      nd == r0.val
      origin == IF \E i \in 1..Len(nd) : Len(nd[i].shape) # 3
                THEN Raise("IndexError")
                ELSE Ok([i \in 1..Len(nd) |-> nd[i].data[1]])
      base == BaseMesh__init__(nd[1].shape, Some(origin.val), kwargs)
  IN IF ~r0.ok THEN r0
     ELSE IF nd = <<>> THEN Raise("IndexError")
     ELSE IF ~origin.ok THEN origin
     ELSE IF ~base.ok THEN base
     ELSE Ok([shape |-> base.val.shape, x0 |-> base.val.x0, nodes |-> Some(nd)])

\* the shapes of the node arrays offered to the constructor
NodeShapes == {<<2>>, <<2, 2>>, <<2, 3>>, <<3, 2>>, <<2, 2, 2>>}

\* an array of the shape sh: the entries count 0, 1, 2, ...
Counting(sh) == Arr(sh, [k \in 1..Prod(sh) |-> k - 1])

ConstructCurvilinearMesh(nodes_in) ==
  LET res == CurvilinearMesh__init__(nodes_in, None)
  IN /\ cls = "none" /\ op = "init"
     /\ op' = "CurvilinearMesh"
     /\ arg' = [nodes |-> nodes_in]
     /\ out' = res
     /\ cls' = IF res.ok THEN "CurvilinearMesh" ELSE cls
     /\ shape' = IF res.ok THEN res.val.shape ELSE shape
     /\ x0' = IF res.ok THEN res.val.x0 ELSE x0
     /\ nodes' = IF res.ok THEN res.val.nodes ELSE nodes
     /\ UNCHANGED <<h, cache, calls>>

NewCurvilinearMesh ==
  /\ op = "init"
  /\ \E shapes \in SeqsUpTo(NodeShapes, MaxDimIn) :
       ConstructCurvilinearMesh([i \in 1..Len(shapes) |-> Counting(shapes[i])])

NextCurvInit == NewCurvilinearMesh

SpecCurvInit == InitNone /\ [][NextCurvInit]_vars

\* a list of node arrays the spec accepts: 2 or 3 arrays, each of as many
\* dimensions as there are arrays, all of one shape
ValidNodes(v) ==
  /\ Len(v) \in {2, 3}
  /\ \A i \in 1..Len(v) : Len(v[i].shape) = Len(v) /\ v[i].shape = v[1].shape

\* C22 as stated: the construction of a CurvilinearMesh from a list of node
\* arrays succeeds exactly when the list has 2 or 3 arrays, each of as many
\* dimensions as the list has arrays and all of one shape; the mesh's shape
\* is then the node-array shape minus 1 on every axis; otherwise it fails
\* with the shape error and there is no mesh.
C22_AsStated ==
  op = "CurvilinearMesh" =>
    /\ out.ok <=> ValidNodes(arg.nodes)
    /\ out.ok =>
         /\ cls = "CurvilinearMesh"
         /\ nodes = Some(arg.nodes)
         /\ shape = Some([a \in 1..Len(arg.nodes) |-> arg.nodes[1].shape[a] - 1])
    /\ ~out.ok => (cls = "none" /\ out.err = "ValueError")

\* two node arrays of 2 by 3 nodes: the construction raises TypeError
C22_Witness ==
  /\ op = "CurvilinearMesh"
  /\ Len(arg.nodes) = 2
  /\ arg.nodes[1].shape = <<2, 3>> /\ arg.nodes[2].shape = <<2, 3>>
  /\ ~out.ok /\ out.err = "TypeError" /\ cls = "none"

(* ---------------------- curvilinear mesh: grids ------------------------ *)
\* Node coordinates and everything derived from them are exact fractions.
\* largest number of cells along an axis of a 2-D curvilinear mesh drawn
MaxCurvN == 2

\* np.c_[cols]: the one-dimensional arrays cols as the columns of a matrix
c_(cols) ==
  LET n == Size(cols[1])
      d == Len(cols)
  IN Arr(<<n, d>>,
         Listed([p \in 1..(n * d) |-> cols[((p - 1) % d) + 1].data[((p - 1) \div d) + 1]],
                n * d))

\* self._gridN as __init__ fills it: column i is utils.mkvc(nodes[i])
GridNOf(nd) == c_(Listed([i \in 1..Len(nd) |-> mkvc(nd[i])], Len(nd)))

\* the mean of the slices of n shifted by 0 and by 1 along every axis of
\* axes, e.g. 0.5 * (n[:, :-1] + n[:, 1:]) for axes = {2}
Averaged(n, axes) ==
  LET d == NDim(n)
      sh == [a \in 1..d |-> IF a \in axes THEN n.shape[a] - 1 ELSE n.shape[a]]
      corners == {o \in [1..d -> {0, 1}] : \A a \in 1..d : a \notin axes => o[a] = 0}
      at(idx) == QMul(<<1, Pow2(Cardinality(axes))>>,
                      SumOver(corners,
                              [o \in corners |-> At(n, [a \in 1..d |-> idx[a] + o[a]])]))
  IN Arr(sh, Listed([p \in 1..Prod(sh) |-> at(MultiC(sh, p - 1))], Prod(sh)))

\* mutant: the node matrices are averaged along the axis of the key itself
SlicedAxes_ownAxis(key, d) ==
  IF key \in {"Fx", "Ex"} THEN {1} ELSE IF key \in {"Fy", "Ey"} THEN {2} ELSE {3}

\* the axes along which the property 'grid' + key averages the node
\* matrices on a mesh of d axes; gridFz has one rule for every d
SlicedAxes(key, d) ==
  CASE key = "Fx" -> IF d = 2 THEN {2} ELSE {2, 3}
    [] key = "Fy" -> IF d = 2 THEN {1} ELSE {1, 3}
    [] key = "Fz" -> {1, 2}
    [] key = "Ex" -> {1}
    [] key = "Ey" -> {2}
    [] key = "Ez" -> {3}

\* the fields of the curvilinear mesh that the properties read
Curv == [shape |-> Get(shape), nodes |-> Get(nodes)]

\* mesh.gridN: the array __init__ stored, or an Exception when none is held
gridN(held) ==
  IF "_gridN" \in DOMAIN held THEN Ok(held["_gridN"]) ELSE Raise("Exception")

\* the computation of mesh.gridFx, ..., mesh.gridEz when none is stored:
\* the node matrices N come from r; gridFz slices three axes whatever the
\* dimension, and gridEz computes nothing below three axes, so that the
\* read of the attribute that was never set raises AttributeError
CurvGrid(m, held, key) ==
  LET d == dim(m.shape)
      gN == gridN(held)
      from(N) ==
        IF ~N.ok THEN N
        ELSE IF key \in {"Fz", "Ez"} /\ d < 3 THEN Raise("IndexError")
        ELSE Ok(c_(Listed([c \in 1..d |->
                             mkvc(Averaged(N.val.items[c], SlicedAxes(key, d)))], d)))
  IN IF key = "Ez" /\ d # 3 THEN Raise("AttributeError")
     ELSE IF ~gN.ok THEN gN
     ELSE from(r(m.shape, gN.val, "N", "N", "M"))

\* the node grids drawn: node (i, j, k) of the families
\*   unit      (i, j, k)
\*   stretched (i(i+1)/2, 2j, 2k)
\*   turned    (-j, i, k)
\*   slanted   (3i, 4i + 5j, k)
NodeFamilies == {"unit", "stretched", "turned", "slanted"}

NodeCoordinate(family, c, idx) ==
  CASE family = "unit" -> idx[c]
    [] family = "stretched" -> IF c = 1 THEN (idx[1] * (idx[1] + 1)) \div 2 ELSE 2 * idx[c]
    [] family = "turned" -> IF c = 1 THEN -idx[2] ELSE IF c = 2 THEN idx[1] ELSE idx[c]
    [] family = "slanted" -> IF c = 1 THEN 3 * idx[1]
                             ELSE IF c = 2 THEN 4 * idx[1] + 5 * idx[2] ELSE idx[c]

\* the node arrays of a family on a mesh of the shape s
NodesOf(family, s) ==
  LET nn == AddSeq(s, Rep(Len(s), 1))
  IN Listed([c \in 1..Len(s) |->
               Arr(nn, Listed([p \in 1..Prod(nn) |->
                                 <<NodeCoordinate(family, c, MultiC(nn, p - 1)), 1>>],
                              Prod(nn)))],
            Len(s))

\* the shapes of the curvilinear meshes drawn
CurvShapes == [1..2 -> 1..MaxCurvN] \cup [1..3 -> {1, 2}]

\* a curvilinear mesh as a construction is meant to leave it: shape is the
\* node-array shape less 1 and _gridN holds the nodes
InitCurv ==
  /\ cls = "CurvilinearMesh"
  /\ \E s \in CurvShapes, family \in NodeFamilies :
       /\ shape = Some(s)
       /\ nodes = Some(NodesOf(family, s))
       /\ x0 = Some([c \in 1..Len(s) |-> NodeCoordinate(family, c, Rep(Len(s), 0))])
       /\ cache = [k \in {"_gridN"} |-> GridNOf(NodesOf(family, s))]
  /\ h = None
  /\ calls = <<>>
  /\ op = "init"
  /\ arg = None
  /\ out = Ok(None)

(* --------------------- curvilinear mesh: geometry ---------------------- *)
\* Vectors are sequences of fractions.  The node grids drawn have faces
\* and edges of rational size, so that every length is an exact fraction.
QNeg(a) == <<-a[1], a[2]>>
QSub(a, b) == QAdd(a, QNeg(b))
QDiv(a, b) == QMul(a, QInv(b))

\* the root of a square
Root(k) == CHOOSE q \in 0..k : q * q = k
QRoot(a) == <<Root(a[1]), Root(a[2])>>

VSub(a, b) == [c \in 1..Len(a) |-> QSub(a[c], b[c])]
VAdd(a, b) == [c \in 1..Len(a) |-> QAdd(a[c], b[c])]
VOver(a, q) == [c \in 1..Len(a) |-> QDiv(a[c], q)]

\* length2D(x), length3D(x) of one row
Length(v) == QRoot(QSum([c \in 1..Len(v) |-> QMul(v[c], v[c])]))

\* normalize2D(x), normalize3D(x) of one row
Normalized(v) == VOver(v, Length(v))

Cross(a, b) ==
  <<QSub(QMul(a[2], b[3]), QMul(a[3], b[2])),
    QSub(QMul(a[3], b[1]), QMul(a[1], b[3])),
    QSub(QMul(a[1], b[2]), QMul(a[2], b[1]))>>

\* row k (from 0) of a matrix
RowOf(A, k) == SubSeq(A.data, k * A.shape[2] + 1, (k + 1) * A.shape[2])

\* the matrix whose rows are the vectors rows, of d columns
Rows(rows, d) ==
  Arr(<<Len(rows), d>>,
      Listed([p \in 1..(Len(rows) * d) |-> rows[((p - 1) \div d) + 1][((p - 1) % d) + 1]],
             Len(rows) * d))

\* the corners of a cell: A = node(i,j,k), B = node(i,j+1,k),
\* C = node(i+1,j+1,k), D = node(i+1,j,k), and E, F, G, H those at k+1
NodeMap(letter) ==
  CASE letter = "A" -> <<0, 0, 0>>
    [] letter = "B" -> <<0, 1, 0>>
    [] letter = "C" -> <<1, 1, 0>>
    [] letter = "D" -> <<1, 0, 0>>
    [] letter = "E" -> <<0, 0, 1>>
    [] letter = "F" -> <<0, 1, 1>>
    [] letter = "G" -> <<1, 1, 1>>
    [] letter = "H" -> <<1, 0, 1>>

\* utils.indexCube(letter, gridSize, n): for every multi-index of the grid
\* n, first index fastest, the row of gridN that holds the named corner
indexCube(letter, gridSize, n) ==
  Listed([k \in 1..Prod(n) |->
            PosF(gridSize, [a \in 1..Len(n) |-> MultiF(n, k - 1)[a] + NodeMap(letter)[a]])],
         Prod(n))

\* the rows of xyz at the index arrays
Took(xyz, index) == Listed([k \in 1..Len(index) |-> RowOf(xyz, index[k])], Len(index))

\* utils.faceInfo(xyz, A, B, C, D): the normals at the four corners of
\* every face, each the cross product of the two sides that meet there,
\* and the area, the mean of the lengths of the four
faceInfo(xyz, A, B, C, D) ==
  LET n == Len(A)
      pad(v) == IF Len(v) = 2 THEN v \o <<(<<0, 1>>)>> ELSE v
      at(index, k) == pad(RowOf(xyz, index[k]))
      AB(k) == VSub(at(B, k), at(A, k))
      BC(k) == VSub(at(C, k), at(B, k))
      CD(k) == VSub(at(D, k), at(C, k))
      DA(k) == VSub(at(A, k), at(D, k))
      nA == Listed([k \in 1..n |-> Cross(AB(k), DA(k))], n)
      nB == Listed([k \in 1..n |-> Cross(BC(k), AB(k))], n)
      nC_ == Listed([k \in 1..n |-> Cross(CD(k), BC(k))], n)
      nD == Listed([k \in 1..n |-> Cross(DA(k), CD(k))], n)
  IN [normals |-> <<nA, nB, nC_, nD>>,
      area |-> Listed([k \in 1..n |->
                         QMul(<<1, 4>>, QSum(<<Length(nA[k]), Length(nB[k]),
                                              Length(nC_[k]), Length(nD[k])>>))], n)]

\* utils.volTetra(xyz, A, B, C, D): a sixth of the triple product of the
\* sides that meet in D
volTetra(xyz, A, B, C, D) ==
  LET vol1(k) ==
        LET AD == VSub(RowOf(xyz, A[k]), RowOf(xyz, D[k]))
            BD == VSub(RowOf(xyz, B[k]), RowOf(xyz, D[k]))
            CD == VSub(RowOf(xyz, C[k]), RowOf(xyz, D[k]))
            cr == Cross(BD, CD)
        IN QMul(<<1, 6>>, QSum(<<QMul(cr[1], AD[1]), QMul(cr[2], AD[2]),
                                QMul(cr[3], AD[3])>>))
  IN Listed([k \in 1..Len(A) |-> vol1(k)], Len(A))

\* the sum, entry by entry, of lists of fractions of one length
RECURSIVE Total(_)
Total(lists) ==
  IF Len(lists) = 1 THEN lists[1]
  ELSE LET rest == Total(Tail(lists))
       IN Listed([k \in 1..Len(rest) |-> QAdd(lists[1][k], rest[k])], Len(rest))

\* the computation of mesh.vol: the area of the cells in two dimensions,
\* the mean of two decompositions into five tetrahedra in three
CurvVol(m, gN) ==
  LET nn == AddSeq(m.shape, Rep(Len(m.shape), 1))
      ix(letter) == indexCube(letter, nn, m.shape)
      t(a, b, c, d) == volTetra(gN, ix(a), ix(b), ix(c), ix(d))
      vol1 == Total(<<t("A", "B", "D", "E"), t("B", "E", "F", "G"), t("B", "D", "E", "G"),
                      t("B", "C", "D", "G"), t("D", "E", "G", "H")>>)
      vol2 == Total(<<t("A", "F", "B", "C"), t("A", "E", "F", "H"), t("A", "H", "F", "C"),
                      t("C", "H", "D", "A"), t("C", "G", "H", "F")>>)
  IN IF dim(m.shape) = 2
     THEN Arr1(faceInfo(gN, ix("A"), ix("B"), ix("C"), ix("D")).area)
     ELSE Arr1(Listed([k \in 1..nC(m.shape) |->
                         QMul(<<1, 2>>, QAdd(vol1[k], vol2[k]))], nC(m.shape)))

\* mutant: the side of the face is taken for its normal
Normal2D_side(e) == e

\* np.c_[edge[:, 1], -edge[:, 0]]: the side of a face turned a quarter turn
Normal2D(e) == <<e[2], QNeg(e[1])>>

\* the computation of area: _area, the areas of the x-, y- and z-faces, and
\* _normals, per axis the normals of the faces of that axis (in three
\* dimensions the four corner normals of every face)
CurvArea(m, gN) ==
  LET s == m.shape
      nn == AddSeq(s, Rep(Len(s), 1))
      grid(a) == [b \in 1..Len(s) |-> IF b = a THEN s[b] + 1 ELSE s[b]]
      ix(letter, a) == indexCube(letter, nn, grid(a))
      edge1 == Listed([k \in 1..Prod(grid(1)) |->
                         VSub(RowOf(gN, ix("B", 1)[k]), RowOf(gN, ix("A", 1)[k]))],
                      Prod(grid(1)))
      edge2 == Listed([k \in 1..Prod(grid(2)) |->
                         VSub(RowOf(gN, ix("A", 2)[k]), RowOf(gN, ix("D", 2)[k]))],
                      Prod(grid(2)))
      normal1 == Listed([k \in 1..Len(edge1) |-> Normal2D(edge1[k])], Len(edge1))
      normal2 == Listed([k \in 1..Len(edge2) |-> Normal2D(edge2[k])], Len(edge2))
      unit(vs) == Listed([k \in 1..Len(vs) |-> Normalized(vs[k])], Len(vs))
      lengths(vs) == Listed([k \in 1..Len(vs) |-> Length(vs[k])], Len(vs))
      f1 == faceInfo(gN, ix("A", 1), ix("E", 1), ix("F", 1), ix("B", 1))
      f2 == faceInfo(gN, ix("A", 2), ix("D", 2), ix("H", 2), ix("E", 2))
      f3 == faceInfo(gN, ix("A", 3), ix("B", 3), ix("C", 3), ix("D", 3))
  IN IF dim(s) = 2
     THEN [_area |-> Arr1(lengths(edge1) \o lengths(edge2)),
           _normals |-> [list |-> <<unit(normal1), unit(normal2)>>]]
     ELSE [_area |-> Arr1(f1.area \o f2.area \o f3.area),
           _normals |-> [list |-> <<f1.normals, f2.normals, f3.normals>>]]

\* what mesh.normals returns from the stored _normals: one unit normal per
\* face, in three dimensions the mean of the four corner normals
CurvNormals(m, stored) ==
  LET mean(four) ==
        Listed([k \in 1..Len(four[1]) |->
                  VOver(VAdd(VAdd(four[1][k], four[2][k]), VAdd(four[3][k], four[4][k])),
                        <<4, 1>>)],
               Len(four[1]))
      all == IF dim(m.shape) = 2 THEN stored.list[1] \o stored.list[2]
             ELSE mean(stored.list[1]) \o mean(stored.list[2]) \o mean(stored.list[3])
  IN Rows(Listed([k \in 1..Len(all) |-> Normalized(all[k])], Len(all)), dim(m.shape))

\* the computation of edge: _edge, the lengths of the x-, y- and z-edges,
\* and _tangents, the edges over their lengths
CurvEdge(m, gN) ==
  LET s == m.shape
      nn == AddSeq(s, Rep(Len(s), 1))
      grid(a) == [b \in 1..Len(s) |-> IF b = a THEN s[b] ELSE s[b] + 1]
      along(letter, a) ==
        Listed([k \in 1..Prod(grid(a)) |->
                  VSub(RowOf(gN, indexCube(letter, nn, grid(a))[k]),
                       RowOf(gN, indexCube("A", nn, grid(a))[k]))],
               Prod(grid(a)))
      edges == IF dim(s) = 2 THEN along("D", 1) \o along("B", 2)
               ELSE along("D", 1) \o along("B", 2) \o along("E", 3)
  IN [_edge |-> Arr1(Listed([k \in 1..Len(edges) |-> Length(edges[k])], Len(edges))),
      _tangents |-> Rows(Listed([k \in 1..Len(edges) |-> Normalized(edges[k])],
                                Len(edges)), dim(s))]

(* ------------------ curvilinear mesh: cached properties ---------------- *)
\* the attributes held after those of new have been set
Stored(held, new) ==
  [k \in DOMAIN held \cup DOMAIN new |-> IF k \in DOMAIN new THEN new[k] ELSE held[k]]

CurvGridKeys == {"Fx", "Fy", "Fz", "Ex", "Ey", "Ez"}
CurvGeometry == {"vol", "area", "normals", "edge", "tangents"}

\* the name of the attribute that holds the grid of a key
GridAttr(key) ==
  CASE key = "Fx" -> "_gridFx" [] key = "Fy" -> "_gridFy" [] key = "Fz" -> "_gridFz"
    [] key = "Ex" -> "_gridEx" [] key = "Ey" -> "_gridEy" [] key = "Ez" -> "_gridEz"

\* a read of a property of the curvilinear mesh with the fields m and the
\* attributes held: the value returned (or the exception) and the
\* attributes held afterwards.  A quantity is computed when its attribute
\* is not held, then stored; area and edge store two attributes each, and
\* normals and tangents call them when theirs is missing.
CurvRead(m, held, p) ==
  LET gN == gridN(held)
      has(a) == a \in DOMAIN held
      computed(attr, res) ==
        IF res.ok
        THEN [out |-> res, held |-> Stored(held, [k \in {attr} |-> res.val])]
        ELSE [out |-> res, held |-> held]
      gridRead(key) ==
        IF has(GridAttr(key)) THEN [out |-> Ok(held[GridAttr(key)]), held |-> held]
        ELSE computed(GridAttr(key), CurvGrid(m, held, key))
      failed == [out |-> gN, held |-> held]
      returned(attr, with) ==
        [out |-> Ok(IF attr = "normals" THEN CurvNormals(m, with["_normals"])
                    ELSE with[attr]),
         held |-> with]
      withArea(attr) ==
        returned(attr, IF has("_area") /\ has("_normals") THEN held
                       ELSE Stored(held, CurvArea(m, gN.val)))
      withEdge(attr) ==
        returned(attr, IF has("_edge") THEN held ELSE Stored(held, CurvEdge(m, gN.val)))
  IN CASE p \in CurvGridKeys -> gridRead(p)
       [] p = "gridN" -> [out |-> gN, held |-> held]
       [] p = "vol" ->
            IF has("_vol") THEN [out |-> Ok(held["_vol"]), held |-> held]
            ELSE IF ~gN.ok THEN failed
            ELSE computed("_vol", Ok(CurvVol(m, gN.val)))
       [] p = "area" ->
            IF ~(has("_area") /\ has("_normals")) /\ ~gN.ok THEN failed
            ELSE withArea("_area")
       [] p = "normals" ->
            IF has("_normals") THEN returned("normals", held)
            ELSE IF ~gN.ok THEN failed
            ELSE withArea("normals")
       [] p = "edge" ->
            IF ~has("_edge") /\ ~gN.ok THEN failed
            ELSE withEdge("_edge")
       [] p = "tangents" ->
            IF has("_tangents") THEN [out |-> Ok(held["_tangents"]), held |-> held]
            ELSE IF ~gN.ok THEN failed
            ELSE withEdge("_tangents")

\* mesh.gridFx, ..., mesh.tangents
ReadCurv(p) ==
  /\ cls = "CurvilinearMesh"
  /\ op' = p
  /\ arg' = None
  /\ \E res \in {CurvRead(Curv, cache, p)} :
       /\ out' = res.out
       /\ cache' = res.held
  /\ UNCHANGED <<cls, shape, x0, h, nodes, calls>>

\* Each behaviour makes one read on the mesh drawn.
CurvGridReads ==
  /\ op = "init"
  /\ \E key \in CurvGridKeys \cup {"gridN"} : ReadCurv(key)

CurvGeometryReads ==
  /\ op = "init"
  /\ \E p \in CurvGeometry : ReadCurv(p)

NextCurv == CurvGridReads \/ CurvGeometryReads

SpecCurv == InitCurv /\ [][NextCurv]_vars

(* -------------------- claims on the curvilinear mesh ------------------- *)
\* the axis of a staggered grid and whether it is a grid of faces
KeyAxis(key) == IF key \in {"Fx", "Ex"} THEN 1 ELSE IF key \in {"Fy", "Ey"} THEN 2 ELSE 3
KeyIsFace(key) == key \in {"Fx", "Fy", "Fz"}

\* the offsets from a face or an edge to the nodes around it: a face of
\* axis a has its corners one step along every other axis, an edge of axis
\* a its two ends one step along a
Neighbours(key, d) ==
  {o \in [1..d -> {0, 1}] :
     \A b \in 1..d :
       IF KeyIsFace(key) THEN (b = KeyAxis(key) => o[b] = 0)
       ELSE (b # KeyAxis(key) => o[b] = 0)}

\* the reads of a staggered grid the mesh has: the axis is one of the mesh
StaggeredRead ==
  /\ cls = "CurvilinearMesh" /\ op \in CurvGridKeys
  /\ KeyAxis(op) <= dim(Get(shape))

\* C23: on a curvilinear mesh each staggered grid has as many rows as the
\* matching count (nFx, nFy, nFz, nEx, nEy, nEz) and each row is the mean of
\* the neighbouring nodes: in 2-D an x-face and a y-edge the midpoint of
\* nodes (i,j),(i,j+1), a y-face and an x-edge that of (i,j),(i+1,j); in
\* 3-D a face the mean of its 4 corners, an edge the midpoint of its ends.
C23_StaggeredGridsAverageNodes ==
  StaggeredRead =>
    LET s == Get(shape)
        d == dim(s)
        extent == Extent("BASETENSOR", s, IF KeyIsFace(op) THEN "F" ELSE "E", KeyAxis(op))
        around == Neighbours(op, d)
        mean(c, idx) ==
          QMul(<<1, Cardinality(around)>>,
               SumOver(around,
                       [o \in around |-> At(Get(nodes)[c], [b \in 1..d |-> idx[b] + o[b]])]))
    IN /\ out.ok
       /\ out.val.shape = <<ExpectedSize(s, op), d>>
       /\ Prod(extent) = ExpectedSize(s, op)
       /\ Cardinality(around) = IF KeyIsFace(op) /\ d = 3 THEN 4 ELSE 2
       /\ \A k \in 1..ExpectedSize(s, op), c \in 1..d :
            At(out.val, <<k - 1, c - 1>>) = mean(c, MultiF(extent, k - 1))

\* the x-faces of the slanted mesh of 2 by 1 cells: nodes (3i, 4i + 5j)
C23_Witness ==
  /\ StaggeredRead /\ op = "Fx" /\ out.ok
  /\ shape = Some(<<2, 1>>)
  /\ At(Get(nodes)[2], <<1, 1>>) = <<9, 1>>
  /\ out.val = Arr(<<3, 2>>, <<(<<0, 1>>), (<<5, 2>>), (<<3, 1>>), (<<13, 2>>),
                              (<<6, 1>>), (<<21, 2>>)>>)

\* the reads C24 is about: a 2-D mesh whose nodes are (i, j)
UnitGridRead ==
  /\ cls = "CurvilinearMesh" /\ dim(Get(shape)) = 2
  /\ nodes = Some(NodesOf("unit", Get(shape)))
  /\ op \in {"vol", "area", "edge", "normals"}

\* C24: on a 2-D curvilinear mesh built from an axis-aligned node grid of
\* spacing 1, vol is 1 for every cell, every face area and edge length is
\* 1, and normals is that of the topology counter: (1,0) for every x-face,
\* then (0,1) for every y-face.
C24_UnitGridGeometry ==
  UnitGridRead =>
    LET s == Get(shape)
        ones(n) == Arr1([k \in 1..n |-> <<1, 1>>])
        counted == Get(normals(s))
    IN /\ out.ok
       /\ op = "vol" => out.val = ones(nC(s))
       /\ op = "area" => out.val = ones(nF(s))
       /\ op = "edge" => out.val = ones(nE(s))
       /\ op = "normals" =>
            /\ out.val.shape = <<nF(s), 2>>
            /\ \A k \in 1..nF(s), c \in 1..2 :
                 At(out.val, <<k - 1, c - 1>>) = <<counted[k][c], 1>>

\* the normals of the unit mesh of 2 by 1 cells: 3 x-faces, then 4 y-faces
C24_Witness ==
  /\ UnitGridRead /\ op = "normals" /\ out.ok
  /\ shape = Some(<<2, 1>>)
  /\ out.val = Arr(<<7, 2>>,
                   <<(<<1, 1>>), (<<0, 1>>), (<<1, 1>>), (<<0, 1>>), (<<1, 1>>), (<<0, 1>>),
                     (<<0, 1>>), (<<1, 1>>), (<<0, 1>>), (<<1, 1>>), (<<0, 1>>), (<<1, 1>>),
                     (<<0, 1>>), (<<1, 1>>)>>)

(* ---------------- stored quantities: reads and assignments ------------- *)
\* the quantities read in the behaviours of stored quantities
TensorReads == {"CC", "Fx"}
CurvReads == {"Fx", "vol", "area", "normals", "edge", "tangents"}

\* the widths assigned to an axis that holds n cells
WidthsOf(n) == IF n = 1 THEN {<<2>>} ELSE {<<2, 2>>, <<4, 4>>}

\* mesh.gridCC, mesh.gridFx of a tensor mesh on the fields as they are.
\* gridFx tests self.nFx == 0 first, and nFx reads the shape; then
\* _getTensorGrid returns the attribute '_grid' + key if it is held, else
\* computes the grid from h, x0 and len(shape) and stores it.
TensorGridOutcome(key) ==
  IF key # "CC" /\ shape = None THEN Raise("TypeError")
  ELSE IF key \in DOMAIN cache THEN Ok(cache[key])
  ELSE IF shape = None THEN Raise("TypeError")
  ELSE Ok(_getTensorGrid(Mesh, key))

ReadTensorGrid(key) ==
  /\ cls = "TensorMesh"
  /\ op' = key
  /\ arg' = None
  /\ \E res \in {TensorGridOutcome(key)} :
       /\ out' = res
       /\ cache' = IF res.ok THEN Stored(cache, [k \in {key} |-> res.val]) ELSE cache
  /\ UNCHANGED <<cls, shape, x0, h, nodes, calls>>

\* mesh.h = v with arrays as long as those held
SetWidths ==
  /\ cls = "TensorMesh"
  /\ \E v \in [1..Len(Get(h)) -> WidthArrays \cup {<<4, 4>>}] :
       /\ \A i \in 1..Len(v) : v[i] \in WidthsOf(Len(Get(h)[i]))
       /\ SetH(v)

\* a read of a property of a curvilinear mesh on the fields as they are:
\* when the shape holds nothing, a read returns the attribute it holds
\* without reading the shape, and every other read fails on len(shape) or
\* shape + 1; normals reads self.dim even when its attribute is held
CurvReadOutcome(p) ==
  LET has(a) == a \in DOMAIN cache
      kept(a) == [out |-> Ok(cache[a]), held |-> cache]
      fails == [out |-> Raise("TypeError"), held |-> cache]
  IN IF shape # None THEN CurvRead(Curv, cache, p)
     ELSE IF p \in CurvGridKeys /\ has(GridAttr(p)) THEN kept(GridAttr(p))
     ELSE IF p = "vol" /\ has("_vol") THEN kept("_vol")
     ELSE IF p = "area" /\ has("_area") /\ has("_normals") THEN kept("_area")
     ELSE IF p = "edge" /\ has("_edge") THEN kept("_edge")
     ELSE IF p = "tangents" /\ has("_tangents") THEN kept("_tangents")
     ELSE fails

ReadCurvProperty(p) ==
  /\ cls = "CurvilinearMesh"
  /\ op' = p
  /\ arg' = None
  /\ \E res \in {CurvReadOutcome(p)} :
       /\ out' = res.out
       /\ cache' = res.held
  /\ UNCHANGED <<cls, shape, x0, h, nodes, calls>>

\* mesh.shape = v on a curvilinear mesh: the validator is given x0 and the
\* nodes
SetShapeCurv(v) ==
  LET res == _check_shape(v, [k \in {"x0", "nodes"} |->
                                IF k = "x0" THEN x0 ELSE Get(nodes)])
  IN /\ cls = "CurvilinearMesh"
     /\ op' = "set_shape"
     /\ arg' = [shape |-> v]
     /\ out' = res
     /\ shape' = IF res.ok THEN res.val ELSE shape
     /\ UNCHANGED <<cls, x0, h, nodes, cache, calls>>

\* the shapes assigned: 1 to 3 axes of 1 or 2 cells
AssignedShapes == UNION {[1..d -> ShapeEntries] : d \in 1..3}

\* a tensor mesh as InitAssign draws it, or a 2-D curvilinear mesh
InitCache ==
  \/ InitAssign
  \/ InitCurv /\ Len(Get(shape)) = 2

NextCache ==
  \/ \E key \in TensorReads : ReadTensorGrid(key)
  \/ \E v \in AssignedShapes : SetShape(v)
  \/ SetWidths
  \/ \E p \in CurvReads : ReadCurvProperty(p)
  \/ \E v \in AssignedShapes : SetShapeCurv(v)

SpecCache == InitCache /\ [][NextCache]_vars

(* ---------------------- claims on stored quantities -------------------- *)
\* the attribute a read returns when it is held
AttrOf(c, p) ==
  IF c = "TensorMesh" THEN p
  ELSE IF p \in CurvGridKeys THEN GridAttr(p)
  ELSE CASE p = "vol" -> "_vol" [] p = "area" -> "_area" [] p = "normals" -> "_normals"
         [] p = "edge" -> "_edge" [] p = "tangents" -> "_tangents"

IsCachedRead(c, p) ==
  IF c = "TensorMesh" THEN p \in TensorReads ELSE p \in CurvReads

\* what a read gives on a curvilinear mesh that holds nothing but its nodes
FirstRead(p) == CurvRead(Curv, [k \in {"_gridN"} |-> cache["_gridN"]], p).out

\* C25 as stated: over any sequence of reads and assignments, no step
\* clears or changes a stored quantity, a read of a quantity that is
\* stored returns the stored value (for normals, the value of the read
\* before it), and on a curvilinear mesh a read returns what the first read
\* of a fresh mesh returns, whatever was read before it.
C25_AsStated ==
  [][/\ \A k \in DOMAIN cache : k \in DOMAIN cache' /\ cache'[k] = cache[k]
     /\ (IsCachedRead(cls, op') /\ AttrOf(cls, op') \in DOMAIN cache) =>
          /\ out'.ok
          /\ (op' # "normals" \/ cls = "TensorMesh") =>
               out'.val = cache[AttrOf(cls, op')]
          /\ (op = op' /\ out.ok) => out' = out
     /\ (cls = "CurvilinearMesh" /\ IsCachedRead(cls, op') /\ shape # None) =>
          out' = FirstRead(op')]_vars

\* the same without the reads made once an assignment has emptied the shape
C25_WhileShapeHeld ==
  [][/\ \A k \in DOMAIN cache : k \in DOMAIN cache' /\ cache'[k] = cache[k]
     /\ (IsCachedRead(cls, op') /\ AttrOf(cls, op') \in DOMAIN cache /\ shape # None) =>
          /\ out'.ok
          /\ (op' # "normals" \/ cls = "TensorMesh") =>
               out'.val = cache[AttrOf(cls, op')]
          /\ (op = op' /\ out.ok) => out' = out
     /\ (cls = "CurvilinearMesh" /\ IsCachedRead(cls, op') /\ shape # None) =>
          out' = FirstRead(op')]_vars

\* gridFx of a tensor mesh read, stored, and read again after mesh.shape = v
\* was accepted
C25_Witness ==
  /\ cls = "TensorMesh" /\ op = "Fx"
  /\ "Fx" \in DOMAIN cache
  /\ shape = None
  /\ out = Raise("TypeError")

(* ------------------- field mapping and reconstruction ------------------ *)
\* the attribute under which a tensor mesh stores the grid of a key:
\* '_grid' + key
TensorGridAttr(key) == IF key = "CC" THEN "_gridCC" ELSE "_gridFx"

\* the names of the attributes the mesh has set besides its fields
AttrsSet ==
  IF cls = "TensorMesh" THEN {TensorGridAttr(k) : k \in DOMAIN cache} ELSE DOMAIN cache

\* the fields of the object; the frame and the coordinate system hold their
\* defaults
FieldNames ==
  {"shape", "x0", IF cls = "TensorMesh" THEN "h" ELSE "nodes",
   "axis_u", "axis_v", "axis_w", "reference_system"}

FieldValue(name) ==
  CASE name = "shape" -> shape
    [] name = "x0" -> x0
    [] name = "h" -> h
    [] name = "nodes" -> nodes
    [] name = "axis_u" -> DefaultAxes[1]
    [] name = "axis_v" -> DefaultAxes[2]
    [] name = "axis_w" -> DefaultAxes[3]
    [] name = "reference_system" -> "cartesian"
    [] name = "__module__" -> "discretize"
    [] name = "__class__" -> cls

\* re.match('_.*?', field) on the names the object holds: those that begin
\* with an underscore
IsPrivateName(field) ==
  field \in {"_gridCC", "_gridFx", "_gridN", "_gridFy", "_gridFz", "_gridEx",
             "_gridEy", "_gridEz", "_vol", "_area", "_normals", "_edge",
             "_tangents"}

\* the keys dict() goes over: every key of __dict__ but the excluded ones,
\* to which the private names of __fields_set__ are added
_calculate_keys(dictKeys, fields_set, exclude) ==
  LET excluded == IF fields_set # {}
                  THEN exclude \cup {f \in fields_set : IsPrivateName(f)}
                  ELSE exclude
  IN dictKeys \ excluded

\* self.dict(exclude=...): the values of the keys kept, and the class
\* identity
dict(exclude) ==
  LET held == FieldNames \cup AttrsSet
      keys == _calculate_keys(held, held, exclude) \cup {"__module__", "__class__"}
  IN [k \in keys |-> FieldValue(k)]

\* the class named by a mapping called with the entries of the mapping
Reconstructed(dic) ==
  IF dic["__class__"] = "TensorMesh"
  THEN BaseTensorMesh__init__(Get(dic["h"]),
                              [i \in 1..Len(Get(dic["x0"])) |-> Num(Get(dic["x0"])[i])],
                              None)
  ELSE CurvilinearMesh__init__(Get(dic["nodes"]), None)

\* an array of one line: at most one axis longer than 1, which is both C
\* and Fortran contiguous
OneLine(sh) == Cardinality({i \in 1..Len(sh) : sh[i] > 1}) <= 1

\* _serialize_numpy of the array x laid out in memory in the order given:
\* flatten(order='A') reads in Fortran order when the array is Fortran and
\* not C contiguous
_serialize_numpy(x, layout) ==
  LET f_order == layout = "F" \/ OneLine(x.shape)
      c_order == layout = "C" \/ OneLine(x.shape)
  IN [shape |-> x.shape,
      np_type |-> "float64",
      f_order |-> f_order,
      items |-> IF f_order /\ ~c_order THEN Listed(FlatF(x), Size(x)) ELSE x.data]

_deserialize_numpy_dict(dic) ==
  IF dic.f_order THEN ReshapeF(Arr1(dic.items), dic.shape)
  ELSE Arr(dic.shape, dic.items)

\* the arrays of the mesh: the widths of its axes, its node arrays, the
\* quantities it has stored
ArraysHeld ==
  (IF h = None THEN {} ELSE {Arr1(Get(h)[i]) : i \in 1..Len(Get(h))})
  \cup (IF nodes = None THEN {} ELSE {Get(nodes)[i] : i \in 1..Len(Get(nodes))})
  \cup {cache[k] : k \in {a \in DOMAIN cache : a \notin {"_normals", "_area", "_edge", "_tangents", "_vol"}}}

\* mesh.dict(), and the mesh built from it
ToDict ==
  LET dic == dict({})
  IN /\ op' = "dict"
     /\ arg' = [rebuilt |-> Reconstructed(dic)]
     /\ out' = Ok(dic)
     /\ UNCHANGED <<cls, shape, x0, h, nodes, cache, calls>>

\* an array of the mesh serialized and read back
RoundTrip ==
  \E x \in ArraysHeld, layout \in {"C", "F"} :
    /\ op' = "roundtrip"
    /\ arg' = [x |-> x, layout |-> layout]
    /\ out' = Ok(_deserialize_numpy_dict(_serialize_numpy(x, layout)))
    /\ UNCHANGED <<cls, shape, x0, h, nodes, cache, calls>>

NextDict ==
  \/ \E key \in TensorReads : ReadTensorGrid(key)
  \/ \E p \in CurvReads : ReadCurvProperty(p)
  \/ ToDict
  \/ RoundTrip

SpecDict == InitCache /\ [][NextDict]_vars

\* C26 as stated: after any reads, dict() holds the declared fields and the
\* class identity and no private entry, the mesh built from the mapping
\* exists and holds the same shape, x0 and h or nodes (hence the same nC
\* and gridCC), and an array serialized and read back is the same array.
C26_AsStated ==
  /\ op = "dict" =>
       /\ DOMAIN out.val = FieldNames \cup {"__module__", "__class__"}
       /\ \A k \in DOMAIN out.val : ~IsPrivateName(k) /\ out.val[k] = FieldValue(k)
       /\ arg.rebuilt.ok
       /\ arg.rebuilt.val.shape = shape
       /\ arg.rebuilt.val.x0 = x0
  /\ op = "roundtrip" => out.val = arg.x

\* the part of C26 on the mapping and the arrays alone
C26_MappingAndArrays ==
  /\ op = "dict" =>
       /\ DOMAIN out.val = FieldNames \cup {"__module__", "__class__"}
       /\ \A k \in DOMAIN out.val : ~IsPrivateName(k) /\ out.val[k] = FieldValue(k)
  /\ op = "roundtrip" => out.val = arg.x

\* dict() of a tensor mesh that has stored gridCC and gridFx: no private
\* key in the mapping, and no mesh built from it
C26_Witness ==
  /\ op = "dict" /\ out.ok
  /\ cls = "TensorMesh" /\ DOMAIN cache = {"CC", "Fx"}
  /\ shape = Some(<<2, 1>>)
  /\ "_gridCC" \notin DOMAIN out.val
  /\ out.val["h"] = h
  /\ arg.rebuilt = Raise("AttributeError")

(* -------------------- tensor mesh: assignments to x0 ------------------- *)
\* the entries offered in an x0: a number and strings
X0Offered == {Num(-2), Str("0"), Str("C"), Str("c"), Str("N"), Str("x")}

\* mesh.x0 = v on a tensor mesh: the pre-validator is given the other
\* fields, h among them, then the validator of BaseMesh compares the lengths;
\* the field holds what the last validator returned
SetX0(v) ==
  LET pre == _prevalid_x0(v, [k \in {"h"} |-> Get(h)])
      res == IF pre.ok THEN _check_x0(pre.val, [k \in {"shape"} |-> shape]) ELSE pre
  IN /\ cls = "TensorMesh"
     /\ op' = "set_x0"
     /\ arg' = [x0 |-> v, prevalid |-> pre]
     /\ out' = res
     /\ x0' = IF res.ok THEN res.val ELSE x0
     /\ UNCHANGED <<cls, shape, h, nodes, cache, calls>>

\* Each behaviour makes one assignment on the mesh drawn.
NextX0 ==
  /\ op = "init"
  /\ \E v \in UNION {[1..d -> X0Offered] : d \in 1..3} : SetX0(v)

SpecX0 == InitAssign /\ [][NextX0]_vars

\* what C27 says of one entry on an axis of widths hi
X0Stated(vi, hi) ==
  IF vi[1] = "num" THEN vi[2]
  ELSE IF vi[2] = "0" THEN 0
  ELSE IF vi[2] \in {"C", "c"} THEN -(Sum(hi) \div 2)
  ELSE -Sum(hi)

X0Strings == {"0", "C", "c", "N", "n"}

\* C27 as stated: an assignment of x0 with a length other than len(h) fails
\* with the dimension mismatch, one with a string other than '0', 'C', 'N'
\* (in either case) fails as not recognized, and any other succeeds and
\* leaves 0, -sum(h[i])/2, -sum(h[i]) or the number given on each axis.
C27_AsStated ==
  op = "set_x0" =>
    LET v == arg.x0
        hh == Get(h)
    IN IF Len(v) # Len(hh) THEN ~out.ok /\ out.err = "DimensionMismatch"
       ELSE IF \E i \in 1..Len(v) : v[i][1] = "str" /\ v[i][2] \notin X0Strings
       THEN ~out.ok /\ out.err = "NotRecognized"
       ELSE /\ out.ok
            /\ x0 = Some([i \in 1..Len(v) |-> X0Stated(v[i], hh[i])])

\* the same of the list the pre-validator returns for an x0 without 'N'
C27_WithoutN ==
  (op = "set_x0" /\ \A i \in 1..Len(arg.x0) : arg.x0[i] \notin {Str("N"), Str("n")}) =>
    LET v == arg.x0
        hh == Get(h)
    IN IF Len(v) # Len(hh) THEN ~out.ok /\ out.err = "DimensionMismatch"
       ELSE IF \E i \in 1..Len(v) : v[i][1] = "str" /\ v[i][2] \notin X0Strings
       THEN ~out.ok /\ out.err = "NotRecognized"
       ELSE /\ arg.prevalid.ok
            /\ arg.prevalid.val = [i \in 1..Len(v) |-> X0Stated(v[i], hh[i])]

\* mesh.x0 = ['C', 'N'] on a mesh of 2 by 1 cells of width 2
C27_Witness ==
  /\ op = "set_x0"
  /\ arg.x0 = <<Str("C"), Str("N")>>
  /\ h = Some(<<(<<2, 2>>), (<<2>>)>>)
  /\ out = Raise("TypeError")
  /\ x0 = Some(<<0, 0>>)

(* ------------------------------ listeners ------------------------------ *)
\* The classes of the model: the base class of the package, a tensor mesh,
\* and two classes that declare listeners in their bodies.
ClassBases(c) ==
  CASE c = "BaseDiscretize" -> <<"BaseModel">>
    [] c = "TensorMesh" -> <<"BaseDiscretize">>
    [] c = "Listening" -> <<"TensorMesh">>
    [] c = "SubListening" -> <<"Listening">>

\* the functions of a class body decorated with listener(field), in the
\* order of the body: __listener_config__ = (field, Listener(func))
Namespace(c) ==
  CASE c = "Listening" -> <<[field |-> "shape", func |-> "on_shape"],
                            [field |-> "h", func |-> "on_h"]>>
    [] c = "SubListening" -> <<[field |-> "h", func |-> "sub_on_h"],
                               [field |-> "x0", func |-> "sub_on_x0"]>>
    [] OTHER -> <<>>

ListenerClasses == {"Listening", "SubListening"}

\* what iterating over a field name yields: its characters
Characters(field) ==
  CASE field = "shape" -> <<"s", "h", "a", "p", "e">>
    [] field = "h" -> <<"h">>
    [] field = "x0" -> <<"x", "0">>

\* listeners[field] += field_listener for every field of base_listeners
inherit_listeners(base_listeners, listeners) ==
  [field \in DOMAIN base_listeners \cup DOMAIN listeners |->
     (IF field \in DOMAIN listeners THEN listeners[field] ELSE <<>>)
     \o (IF field \in DOMAIN base_listeners THEN base_listeners[field] ELSE <<>>)]

\* for field in fields: append v to listeners[field]
RECURSIVE ForEachField(_, _, _)
ForEachField(fields, v, listeners) ==
  IF fields = <<>> THEN listeners
  ELSE LET field == Head(fields)
       IN ForEachField(Tail(fields), v,
            IF field \in DOMAIN listeners
            THEN [listeners EXCEPT ![field] = Append(@, v)]
            ELSE Stored(listeners, [k \in {field} |-> <<v>>]))

\* the listeners of a class body: fields, v = listener_config, and the loop
\* runs over fields, which is the name given to listener()
RECURSIVE extract_from(_, _)
extract_from(namespace, listeners) ==
  IF namespace = <<>> THEN listeners
  ELSE extract_from(Tail(namespace),
         ForEachField(Characters(Head(namespace).field), Head(namespace).func, listeners))

extract_listeners(namespace) == extract_from(namespace, <<>>)

\* ModelWithListenerMetaclass.__new__: the __listeners__ of the class c,
\* given the names bound in the module when its class statement runs.  The
\* loop over the bases evaluates the name BaseDiscretize.
RECURSIVE ModelWithListenerMetaclass__new__(_, _)
ModelWithListenerMetaclass__new__(c, bound) ==
  LET bases == ClassBases(c)
      inherits(base) == base \notin {"BaseModel", "BaseDiscretize"}
      fromBases[n \in 0..Len(bases)] ==
        IF n = 0 THEN <<>>
        ELSE LET base == bases[Len(bases) - n + 1]
             IN IF inherits(base)
                THEN inherit_listeners(
                       ModelWithListenerMetaclass__new__(base, bound).val, fromBases[n - 1])
                ELSE fromBases[n - 1]
  IN IF bases # <<>> /\ "BaseDiscretize" \notin bound THEN Raise("NameError")
     ELSE Ok(inherit_listeners(extract_listeners(Namespace(c)), fromBases[Len(bases)]))

\* the class statement of BaseDiscretize: its own name is bound once the
\* statement has completed
DefineBaseDiscretize ==
  /\ op = "init"
  /\ op' = "class"
  /\ arg' = [name |-> "BaseDiscretize", value |-> None]
  /\ out' = ModelWithListenerMetaclass__new__("BaseDiscretize", {})
  /\ UNCHANGED <<cls, shape, x0, h, nodes, cache, calls>>

\* the __listeners__ of the classes once they are defined
Listeners(c) == ModelWithListenerMetaclass__new__(c, {"BaseDiscretize"}).val

\* setattr(mesh, name, value): the assignment of pydantic, which validates
\* and stores, then every listener under the name is called with the
\* object and the value given
SetAttr(name, value) ==
  LET res == IF name = "shape" THEN _check_shape(value, [k \in {"x0"} |-> x0])
             ELSE _prevalid_h(value)
      registered == Listeners(cls)
  IN /\ op = "init"
     /\ op' = "setattr"
     /\ arg' = [name |-> name, value |-> value]
     /\ out' = IF res.ok THEN Ok(None) ELSE res
     /\ shape' = IF name = "shape" /\ res.ok THEN res.val ELSE shape
     /\ h' = IF name = "h" /\ res.ok THEN Some(res.val) ELSE h
     /\ calls' = IF res.ok /\ name \in DOMAIN registered
                 THEN calls \o [i \in 1..Len(registered[name]) |->
                                  [func |-> registered[name][i], value |-> value]]
                 ELSE calls
     /\ UNCHANGED <<cls, x0, nodes, cache>>

\* an object of a class with listeners, its fields as InitAssign draws them
InitListen ==
  /\ cls \in ListenerClasses
  /\ \E hh \in AssignMeshes :
       /\ h = Some(hh)
       /\ shape = Some([i \in 1..Len(hh) |-> Len(hh[i])])
       /\ x0 = Some(Rep(Len(hh), 0))
  /\ cache = <<>>
  /\ nodes = None
  /\ calls = <<>>
  /\ op = "init"
  /\ arg = None
  /\ out = Ok(None)

NextListen ==
  \/ \E v \in AssignedShapes : SetAttr("shape", v)
  \/ \E v \in SeqsUpTo(WidthArrays, MaxDimIn) : SetAttr("h", v)
  \/ DefineBaseDiscretize

SpecListen == InitListen /\ [][NextListen]_vars

\* the functions declared for a field by a class and its bases, those of
\* the bases first
RECURSIVE DeclaredFor(_, _)
DeclaredFor(c, field) ==
  IF c \notin ListenerClasses THEN <<>>
  ELSE DeclaredFor(ClassBases(c)[1], field)
       \o SelectSeq([i \in 1..Len(Namespace(c)) |-> Namespace(c)[i]],
                    LAMBDA d : d.field = field)

\* C28 as stated: the class statements succeed, and an assignment that
\* passes validation calls the functions declared for its field, those of
\* the base classes first, once each with the value assigned, and no other
\* function; an assignment that fails calls none.
C28_AsStated ==
  /\ op = "class" => out.ok
  /\ op = "setattr" =>
       calls = IF out.ok
               THEN LET declared == DeclaredFor(cls, arg.name)
                    IN [i \in 1..Len(declared) |->
                          [func |-> declared[i].func, value |-> arg.value]]
               ELSE <<>>

\* the same of the fields whose name is a single character
C28_SingleCharacter ==
  (op = "setattr" /\ Len(Characters(arg.name)) = 1) =>
    /\ ~out.ok => calls = <<>>
    /\ \A i \in 1..Len(calls) : calls[i].value = arg.value
    /\ LET declared == DeclaredFor(cls, arg.name)
       IN \A i \in 1..Len(declared) :
            Cardinality({j \in 1..Len(calls) : calls[j].func = declared[i].func}) =
              IF out.ok THEN 1 ELSE 0
    /\ \A i, j \in 1..Len(calls) :
         (calls[i].func = "on_h" /\ calls[j].func = "sub_on_h") => i < j

\* mesh.h = [array([2., 2.])] on an object of the class that listens to
\* shape and to h: the listener of shape is called too
C28_Witness ==
  /\ cls = "Listening" /\ op = "setattr" /\ out.ok
  /\ arg.name = "h" /\ arg.value = <<(<<2, 2>>)>>
  /\ calls = <<[func |-> "on_shape", value |-> arg.value],
               [func |-> "on_h", value |-> arg.value]>>

\* mesh.shape = [2] accepted and no listener called
C28_WitnessShape ==
  /\ cls = "Listening" /\ op = "setattr" /\ out.ok
  /\ arg.name = "shape" /\ arg.value = <<2>>
  /\ calls = <<>>

(* --------------------- claims on the values held ----------------------- *)
\* C29 as stated: after an assignment to shape or x0 that passed validation
\* the field holds the value supplied, so that dim is the length of the
\* supplied shape.
C29_AsStated ==
  /\ (op = "set_shape" /\ out.ok) =>
       /\ shape = arg
       /\ ReadProp("dim", shape) = Ok(Len(Get(arg)))
  /\ (op = "set_x0" /\ out.ok) => x0 = arg

\* mesh.shape = [2, 1] accepted on a mesh of two axes: the field holds
\* nothing afterwards and dim cannot be read
C29_Witness ==
  /\ cls = "BaseMesh" /\ op = "set_shape" /\ out.ok
  /\ arg = Some(<<2, 1>>)
  /\ shape = None
  /\ ~ReadProp("dim", shape).ok

(* ------------------------------ equality ------------------------------- *)
\* The values of a mapping: integers, arrays and mappings, each with the
\* type isinstance sees; an integer is held as an array without axes.
Integer(n) == [type |-> "int", val |-> [shape |-> <<>>, data |-> <<n>>]]
NdArray(a) == [type |-> "ndarray", val |-> a]
Mapping(d) == [type |-> "dict", val |-> d]

\* np.array_equal(a, b)
array_equal(a, b) == a.shape = b.shape /\ a.data = b.data

\* dict_comparer(dict1, dict2): the keys first, then every item by the type
\* of the first; the outcome of the recursive call on two mappings is not
\* used, an exception it raises is.  The items are visited in the order of
\* the keys; of the fields compared here the one whose comparison can raise
\* is the last, so an unequal item is met before it.
RECURSIVE dict_comparer(_, _)
dict_comparer(dict1, dict2) ==
  IF DOMAIN dict1 # DOMAIN dict2 THEN Ok(FALSE)
  ELSE LET item(key) ==
             LET item1 == dict1[key]
                 item2 == dict2[key]
             IN IF item1.type = "dict"
                THEN IF item2.type # "dict" THEN Raise("AttributeError")
                     ELSE LET inner == dict_comparer(item1.val, item2.val)
                          IN IF inner.ok THEN Ok(TRUE) ELSE inner
                ELSE IF item1.type = "ndarray"
                THEN Ok(item2.type = "ndarray" /\ array_equal(item1.val, item2.val))
                ELSE IF item2.type = "ndarray" THEN Raise("ValueError")
                ELSE Ok(item1 = item2)
           raised == {key \in DOMAIN dict1 : ~item(key).ok}
       IN IF \E key \in DOMAIN dict1 : item(key).ok /\ ~item(key).val THEN Ok(FALSE)
          ELSE IF raised # {} THEN item(CHOOSE key \in raised : TRUE)
          ELSE Ok(TRUE)

\* obj.dict() of an object [class, fields]: its fields and its class
DictOf(obj) ==
  Stored(obj.fields, [k \in {"__class__"} |-> [type |-> "str", val |-> obj.class]])

\* self.__eq__(other) for two objects of classes of the package
__eq__(self, other) ==
  IF self.class # other.class THEN Ok(FALSE)
  ELSE dict_comparer(DictOf(self), DictOf(other))

\* the objects compared: two classes, a number, an array and a mapping field
EqNumbers == {Integer(1), Integer(2)}
EqArrays == {NdArray(Arr1(<<1, 2>>)), NdArray(Arr1(<<1, 3>>)), NdArray(Arr(<<2, 1>>, <<1, 2>>))}
EqMappings ==
  {Mapping([k \in {"lo"} |-> Integer(1)]), Mapping([k \in {"lo"} |-> Integer(2)]),
   Mapping([k \in {"hi"} |-> Integer(1)]),
   Mapping([k \in {"lo"} |-> NdArray(Arr1(<<1, 2>>))])}
EqObjects ==
  {[class |-> c, fields |-> [k \in {"n", "a", "d"} |->
                               IF k = "n" THEN n ELSE IF k = "a" THEN a ELSE d]] :
     c \in {"TensorMesh", "CurvilinearMesh"}, n \in EqNumbers, a \in EqArrays,
     d \in EqMappings}

Compare(self, other) ==
  /\ op = "init"
  /\ op' = "__eq__"
  /\ arg' = [self |-> self, other |-> other]
  /\ out' = __eq__(self, other)
  /\ UNCHANGED <<cls, shape, x0, h, nodes, cache, calls>>

NextEq == \E self \in EqObjects, other \in EqObjects : Compare(self, other)

SpecEq == InitNone /\ [][NextEq]_vars

\* C30 as stated: self == other exactly when the two are of one class and
\* every field is equal, mappings compared entry by entry at every depth;
\* and the comparison the other way round gives the same.
C30_AsStated ==
  op = "__eq__" =>
    /\ out = Ok(arg.self = arg.other)
    /\ __eq__(arg.other, arg.self) = out

\* the same of the objects whose mapping fields are equal
C30_ApartFromMappings ==
  (op = "__eq__" /\ arg.self.fields["d"] = arg.other.fields["d"]) =>
    /\ out = Ok(arg.self = arg.other)
    /\ __eq__(arg.other, arg.self) = out

\* two objects that differ inside the nested mapping only compare equal
C30_Witness ==
  /\ op = "__eq__"
  /\ arg.self.class = arg.other.class
  /\ arg.self.fields["n"] = arg.other.fields["n"]
  /\ arg.self.fields["a"] = arg.other.fields["a"]
  /\ arg.self.fields["d"] = Mapping([k \in {"lo"} |-> Integer(1)])
  /\ arg.other.fields["d"] = Mapping([k \in {"lo"} |-> Integer(2)])
  /\ out = Ok(TRUE)

====
